---- MODULE Spec2Model ----
(***************************************************************************)
(* Model of the metric aggregation engine: metrics.run_metrics, the        *)
(* asyncio event loop that runs the ten metric coroutines under            *)
(* asyncio.gather, and the reducer netscore.compute.                       *)
(*                                                                         *)
(* Numbers.  Scores are fixed-point integers in units of 1/10000           *)
(* (One = 1.0).  Weights are in units of 1/100, so a weighted sum is in    *)
(* units of 1/1000000.  Every score the model feeds in is a multiple of    *)
(* 0.01, which keeps the mean of two scores and every weighted sum exact.  *)
(* Python computes in binary floating point; it agrees with the exact      *)
(* decimal result of round(x, 2) except when x lies exactly half way       *)
(* between two hundredths, where the binary error decides the direction:   *)
(* there the model admits both neighbours.                                 *)
(*                                                                         *)
(* Values.  A Python value is a record [t, n, s, d]: t is the type tag     *)
(* ("num", "str", "dict", "none"), n the number, s the string, d the       *)
(* size_score mapping.                                                     *)
(***************************************************************************)
EXTENDS Integers, Sequences, FiniteSets, TLC

\* ------------------------------------------------------------------------
\* Bounds of the exploration

\* In the reference run every metric returns its reference pair and no
\* coroutine suspends.  A run is explored when it is a pure failure pattern
\* (any set of metrics raises an Exception, the others are as in the
\* reference run) or when at most this many metrics are off the reference
\* run (raise, return something else, end abnormally, or suspend)
MaxDeviations == 2

\* netscore.compute is called on the mappings in which at most this many
\* keys depart from a base mapping (no key present, or every key at 1.0)
MaxOdd == 2

\* model_ingest is called on the GradeResults in which at most this many
\* checked scores are below 1.0
MaxLow == 2

\* urls_processor reads files of at most MaxLines lines with at most
\* MaxUrls URLs each
MaxLines == 2
MaxUrls == 2

\* pieces in a string passed to classify_url
MaxPieces == 4

\* commits the hub lists for a repository
MaxCommits == 3

\* parents the LLM names for one model
MaxParents == 2

\* ------------------------------------------------------------------------
\* Values

One == 10000
ERROR_VALUE == -10000
\* milliseconds one network call takes on the model's clock
IoMs == 1

Devices == {"raspberry_pi", "jetson_nano", "desktop_pc", "aws_server"}

NoDict == [dev \in Devices |-> 0]
Num(x) == [t |-> "num", n |-> x, s |-> "", d |-> NoDict]
Str(x) == [t |-> "str", n |-> 0, s |-> x, d |-> NoDict]
Dict(f) == [t |-> "dict", n |-> 0, s |-> "", d |-> f]
NoneValue == [t |-> "none", n |-> 0, s |-> "", d |-> NoDict]

\* float("nan")
NaN == [t |-> "nan", n |-> 0, s |-> "", d |-> NoDict]

\* SizeScore(raspberry_pi=ERROR_VALUE, ...)
ErrorSizeScore == Dict([dev \in Devices |-> ERROR_VALUE])

\* ------------------------------------------------------------------------
\* The metric table of run_metrics

TaskNames == << "name", "category", "code_quality", "performance_claims",
                "bus_factor", "size_score", "ramp_up_time", "license",
                "dataset_quality", "dataset_and_code_score" >>

Metrics == {TaskNames[i] : i \in 1..Len(TaskNames)}

\* metrics whose result is stored as score plus latency under their name
Scalars == Metrics \ {"name", "category", "size_score"}

LatencyKey(m) ==
    CASE m = "net_score" -> "net_score_latency"
      [] m = "ramp_up_time" -> "ramp_up_time_latency"
      [] m = "bus_factor" -> "bus_factor_latency"
      [] m = "performance_claims" -> "performance_claims_latency"
      [] m = "license" -> "license_latency"
      [] m = "size_score" -> "size_score_latency"
      [] m = "dataset_and_code_score" -> "dataset_and_code_score_latency"
      [] m = "dataset_quality" -> "dataset_quality_latency"
      [] m = "code_quality" -> "code_quality_latency"
      [] m = "name" -> "name_latency"
      [] m = "category" -> "category_latency"

LatencyKeys == {LatencyKey(m) : m \in Metrics \cup {"net_score"}}

VARIABLES
    pc,             \* position of run_metrics
    tstate,         \* state of each metric task
    ready,          \* the event loop's FIFO of tasks ready to run
    nawait,         \* how often each task has suspended
    started,        \* clock value at which each metric started
    now,            \* the monotonic clock, in ms since run_metrics was entered
    devs,           \* departures from the reference run so far
    outcome,        \* what each metric coroutine produced
    order,          \* the metrics in order of completion
    results,        \* the list asyncio.gather returned
    metric_scores,  \* the score record
    log,            \* metric names of the logging.error entries, in order
    final,          \* the GradeResult returned: a sequence of <<key, value>>
    error,          \* the exception run_metrics propagated, "" if none
    scenario,       \* which reference run the metric functions follow
    urls,           \* the Subject: the mapping run_metrics is called with
    model_url,      \* the three arguments every metric function is called with
    code_url,
    dataset_url,
    call,           \* 1 during the first invocation of run_metrics, then 2
    first,          \* what the first invocation left behind for the caller
    net_in,         \* netscore.compute called on its own: the mapping passed
    net_tie,        \* the direction its rounding took at a tie
    net_out,        \* the net score it returned
    ingest_arg,     \* model_ingest: the GradeResult passed
    ingest_threshold, \* the threshold passed
    ingest_out,     \* its verdict and the GradeResult as it is afterwards
    lines,          \* urls_processor: the lines of the URL file, each a list of URLs
    line_num,       \* the number of the line handled next
    all_results,    \* its list of results
    invoked,        \* the lines for which run_metrics was called, in order
    fates,          \* how the handling of each of these lines went on
    graded,         \* the lines for which run_metrics returned a GradeResult
    stdout,         \* the results written to stdout, in order
    returned,       \* what urls_processor returned
    raw,            \* classify_url called on its own: the string passed
    classified,     \* what it returned
    bf_url,         \* bus_factor.compute called on its own: the model URL passed
    hub,            \* what the hub reports for the repository
    bf_clock,       \* time.perf_counter() - start_time, in ms
    bf_score,       \* bus_factor_score, kept across the second await
    bf_out,         \* the pair it returned
    lg_arg,         \* get_lineage_graph: the model URL or id passed
    current_model,  \* the model whose parent is asked for next
    lineage,        \* the URLs collected, the queried model first
    visited,        \* the model ids already asked about
    parent_of,      \* the first parent the LLM named for each model asked about
    lg_out,         \* the list it returned
    tree_args,      \* treescore.compute: score_fetcher and current_net_score
    tree_call,      \* 1 during the first call of treescore.compute, then 2
    ancestors,      \* the ancestors not yet scored
    scores,         \* the ancestor scores collected
    score_cache,    \* _score_cache._cache
    cleared,        \* clear_cache was called between the two calls
    requests,       \* the calls of _get_ancestor_score so far
    tree_clock,     \* time.perf_counter() - start_time, in ms
    tree_out        \* the pair it returned

classifyVars == << raw, classified >>

\* the functions called on their own, outside run_metrics
busVars == << bf_url, hub, bf_clock, bf_score, bf_out >>
lineageVars == << lg_arg, current_model, lineage, visited, parent_of, lg_out >>
treeVars == << tree_args, tree_call, ancestors, scores, score_cache, cleared,
              requests, tree_clock, tree_out >>
libVars == << classifyVars, busVars, lineageVars, treeVars >>

vars == << pc, tstate, ready, nawait, started, now, devs, outcome, order,
           results, metric_scores, log, final, error,
           scenario, urls, model_url, code_url, dataset_url, call, first,
           net_in, net_tie, net_out, ingest_arg, ingest_threshold, ingest_out,
           lines, line_num, all_results, invoked, fates, graded, stdout, returned,
           libVars >>

taskVars == << tstate, ready, nawait, started, now, devs, outcome, order >>
engineVars == << results, metric_scores, log, final, error >>

reducerVars == << net_in, net_tie, net_out >>
ingestVars == << ingest_arg, ingest_threshold, ingest_out >>
processorVars == << lines, line_num, all_results, invoked, fates, graded, stdout, returned >>
runVars == << taskVars, engineVars, scenario, urls, model_url, code_url,
             dataset_url, call, first >>

\* what no action of run_metrics changes
frameVars == << scenario, urls, call, first,
               net_in, net_tie, net_out, ingest_arg, ingest_threshold, ingest_out,
               lines, line_num, all_results, invoked, fates, graded, stdout, returned,
               libVars >>
argVars == << model_url, code_url, dataset_url >>

\* ------------------------------------------------------------------------
\* URLs and the Subject

\* A URL is kept as its host and the segments of its path, in lower case;
\* EmptyUrl is the empty string
Url(host, path) == [host |-> host, path |-> path]
EmptyUrl == Url("", << >>)

ModelUrl == Url("huggingface.co", << "google-bert", "bert-base-uncased" >>)
DatasetUrl == Url("huggingface.co", << "datasets", "squad" >>)
CodeUrl == Url("github.com", << "google-research", "bert" >>)

\* {"url": u} and {}
UrlInfo(u) == [k \in {"url"} |-> u]
NoUrlInfo == [k \in {} |-> EmptyUrl]

\* the Subject of the reference run: all three categories present
FullSubject ==
    [c \in {"MODEL", "CODE", "DATASET"} |->
        UrlInfo(CASE c = "MODEL" -> ModelUrl
                  [] c = "CODE" -> CodeUrl
                  [] c = "DATASET" -> DatasetUrl)]

\* Subjects without a primary URL: one has no MODEL entry (and both other
\* entries), one has a MODEL entry whose URL is "" (and no other entry)
EmptySubjects ==
    { [c \in {"CODE", "DATASET"} |-> FullSubject[c]],
      [c \in {"MODEL"} |-> UrlInfo(EmptyUrl)] }

\* a lookup whose default is None instead of ""
UrlOfNone(subject, category) ==
    LET info == IF category \in DOMAIN subject THEN subject[category] ELSE NoUrlInfo
    IN  IF "url" \in DOMAIN info THEN info["url"] ELSE Url("None", << >>)

\* urls.get(category, {}).get("url", "")
UrlOf(subject, category) ==
    LET info == IF category \in DOMAIN subject THEN subject[category] ELSE NoUrlInfo
    IN  IF "url" \in DOMAIN info THEN info["url"] ELSE EmptyUrl

\* ------------------------------------------------------------------------
\* name.compute and size_score.compute, the two metric functions whose
\* result the properties below depend on

\* path segments that lie past the repo id
RESERVED == {"resolve", "blob", "tree", "commit", "commits", "discussions",
             "revision", "files"}

\* next((i for i, p in enumerate(parts) if p in RESERVED), len(parts)),
\* counted from 1
CutIndex(parts) ==
    IF \E i \in 1..Len(parts) : parts[i] \in RESERVED
    THEN CHOOSE i \in 1..Len(parts) :
             /\ parts[i] \in RESERVED
             /\ \A j \in 1..(i - 1) : parts[j] \notin RESERVED
    ELSE Len(parts) + 1

\* the model name name.compute extracts from model_url
name_compute(url) ==
    IF url = EmptyUrl \/ url.path = << >> THEN ""
    ELSE IF Len(url.path) = 1 /\ url.path[1] \in {"models", "datasets", "spaces"}
    THEN ""
    ELSE LET cut == SubSeq(url.path, 1, CutIndex(url.path) - 1)
             repo_parts == IF cut # << >> /\ cut[1] \in {"datasets", "spaces"}
                           THEN Tail(cut) ELSE cut
         IN  IF repo_parts # << >> THEN repo_parts[Len(repo_parts)] ELSE ""

\* size_score.ERROR_VALUE: one dict owned by the module size_score.  The
\* field s of a dict value names the module-level object the dict is; it
\* is "" for a dict created by the call that returns it
SizeErrorValue ==
    [t |-> "dict", n |-> 0, s |-> "size_score.ERROR_VALUE",
     d |-> [dev \in Devices |-> 0]]

\* a table that lacks the largest device
DeviceLimitsThree ==
    [dev \in Devices \ {"aws_server"} |->
        CASE dev = "raspberry_pi" -> 1
          [] dev = "jetson_nano" -> 2
          [] dev = "desktop_pc" -> 16]

\* device capacities in GB
DEVICE_LIMITS ==
    [dev \in Devices |->
        CASE dev = "raspberry_pi" -> 1
          [] dev = "jetson_nano" -> 2
          [] dev = "desktop_pc" -> 16
          [] dev = "aws_server" -> 128]

\* estimated model sizes, in tenths of a GB (0.5 GB is the estimator's
\* default)
ModelSizes == {5, 15, 2000}

\* the scores dict built from the estimated size (tenths of a GB)
DeviceScores(size) ==
    Dict([dev \in DOMAIN DEVICE_LIMITS |->
            IF size <= 5 * DEVICE_LIMITS[dev] THEN One
            ELSE IF size <= 10 * DEVICE_LIMITS[dev] THEN One \div 2
            ELSE 0])

\* what size_score.compute returns as score: url is model_url, size the
\* estimate, fails whether the estimate raised
size_score_compute(url, size, fails) ==
    IF url = EmptyUrl \/ url.host # "huggingface.co" THEN SizeErrorValue
    ELSE IF fails THEN SizeErrorValue
    ELSE DeviceScores(size)

SizeScoreReturns(url) ==
    {size_score_compute(url, size, fails) : size \in ModelSizes, fails \in BOOLEAN}

\* ------------------------------------------------------------------------
\* Outcomes of a metric coroutine (what asyncio.gather collects for a task)
\*   ret        returned the pair (score, latency)
\*   exc        raised an Exception
\*   cancelled  ended with CancelledError, which is not an Exception
\*   raw        returned a value that is not a pair
\*   pending    not settled yet

Ret(score, latency) == [kind |-> "ret", score |-> score, latency |-> latency]
Raised == [kind |-> "exc", score |-> NoneValue, latency |-> NoneValue]
Cancelled == [kind |-> "cancelled", score |-> NoneValue, latency |-> NoneValue]
RawValue == [kind |-> "raw", score |-> NoneValue, latency |-> NoneValue]
Pending == [kind |-> "pending", score |-> NoneValue, latency |-> NoneValue]

\* the reference run: the mid-range scenario of the engine's test plan, or
\* the scenario in which every scalar metric returns 1.0; name is what
\* name.compute extracts from model_url
RefScore(m) ==
    CASE m = "name" -> Str(name_compute(model_url))
      [] m = "category" -> Str("MODEL")
      [] m = "size_score" -> Dict([dev \in Devices |->
                                     IF dev = "raspberry_pi" THEN 2000 ELSE One])
      [] OTHER ->
            IF scenario = "ones" THEN Num(One)
            ELSE CASE m = "license" -> Num(10000)
                   [] m = "ramp_up_time" -> Num(6000)
                   [] m = "bus_factor" -> Num(7500)
                   [] m = "performance_claims" -> Num(5000)
                   [] m = "dataset_quality" -> Num(8000)
                   [] m = "code_quality" -> Num(9000)
                   [] m = "dataset_and_code_score" -> Num(3000)

\* other scores a metric may return: the error sentinel, in-range values,
\* an out-of-range value; for size_score also what the repository's
\* size_score.compute returns
AltScores(m) ==
    CASE m = "name" -> {Str("")}
      [] m = "category" -> {Str("DATASET"), Num(0)}
      [] m = "size_score" -> {ErrorSizeScore} \cup SizeScoreReturns(model_url)
      [] OTHER -> {Num(ERROR_VALUE), Num(0), Num(5000), Num(5 * One)}

\* dataset_quality measures its latency with time.time(): when the wall
\* clock is set forward while it runs, the latency grows by the step
WallClockStep == 1000
SteppedLatency(m, lat) ==
    IF m = "dataset_quality" THEN {Ret(RefScore(m), Num(lat + WallClockStep))} ELSE {}

\* outcomes that depart from the reference run
Deviations(m, lat) ==
    {Ret(v, Num(lat)) : v \in AltScores(m) \ {RefScore(m)}}
    \cup {Ret(RefScore(m), NoneValue), Ret(RefScore(m), Num(-1)),
          Ret(NoneValue, Num(lat)), RawValue, Cancelled}
    \cup SteppedLatency(m, lat)

\* used: deviations so far; nexc: metrics that raised so far
MayDeviate(used, nexc) == used + nexc + 1 <= MaxDeviations
MayRaise(used, nexc) == used = 0 \/ used + nexc + 1 <= MaxDeviations

\* the outcome o of the first invocation, produced again after lat ms
Replayed(o, lat) == IF o.kind = "ret" THEN Ret(o.score, Num(lat)) ELSE o

\* in a second invocation every metric function does what it did in the
\* first one (the sub-metrics are deterministic)
OutcomeChoices(m, lat, used, nexc) ==
    IF call = 2 THEN {Replayed(first.outcome[m], lat)}
    ELSE {Ret(RefScore(m), Num(lat))}
         \cup (IF MayRaise(used, nexc) THEN {Raised} ELSE {})
         \cup (IF MayDeviate(used, nexc) THEN Deviations(m, lat) ELSE {})

IsDeviation(m, o) == o.kind \notin {"ret", "exc"}
                     \/ (o.kind = "ret" /\ (\/ o.score # RefScore(m)
                                          \/ o.latency.t # "num"
                                          \/ o.latency.n < 0
                                          \/ o.latency.n >= WallClockStep))

\* ------------------------------------------------------------------------
\* How a metric coroutine performs its network calls
\*   none   no network call (name parses the URL)
\*   block  synchronous calls (requests.get, git clone, HfApi) made inside
\*          the coroutine: the event-loop thread is held until they return
\*   await  calls handed to the executor and awaited: the task suspends
\* category.py and dataset_code_score.py are not in the source tree; by the
\* metric contract they are coroutines that may do network I/O, and they
\* are taken to await it (they may also return without suspending)
SourceMissing == {"category", "dataset_and_code_score"}

IoKind(m) ==
    CASE m = "name" -> "none"
      [] m = "bus_factor" -> "await"
      [] m \in SourceMissing -> "await"
      [] OTHER -> "block"

\* number of awaits in the coroutine
MaxAwaits(m) == IF m = "bus_factor" THEN 2 ELSE 1

EmptyDict == [k \in {} |-> NoneValue]

\* before the first invocation has returned
NoFirst == [input |-> EmptyDict, net_score |-> NoneValue, tie |-> FALSE,
            outcome |-> [m \in Metrics |-> Pending]]

\* before model_ingest has returned
NoVerdict == [accepted |-> FALSE, after |-> << >>]

\* run_metrics has not been entered
RunIdle ==
    /\ tstate = [m \in Metrics |-> "new"]
    /\ ready = << >>
    /\ nawait = [m \in Metrics |-> 0]
    /\ started = [m \in Metrics |-> 0]
    /\ now = 0
    /\ devs = 0
    /\ outcome = [m \in Metrics |-> Pending]
    /\ order = << >>
    /\ results = << >>
    /\ metric_scores = EmptyDict
    /\ log = << >>
    /\ final = << >>
    /\ error = ""
    /\ model_url = EmptyUrl
    /\ code_url = EmptyUrl
    /\ dataset_url = EmptyUrl
    /\ call = 1
    /\ first = NoFirst

\* netscore.compute has not been called on its own
ReducerIdle ==
    /\ net_in = EmptyDict
    /\ net_tie = FALSE
    /\ net_out = NoneValue

\* model_ingest has not been called
IngestIdle ==
    /\ ingest_arg = << >>
    /\ ingest_threshold = 0
    /\ ingest_out = NoVerdict

\* the value of `returned` while urls_processor has not returned, and {}
NotReturned == [line |-> -1, url |-> EmptyUrl]
EmptyResult == [line |-> 0, url |-> EmptyUrl]

\* urls_processor has not been called
ProcessorIdle ==
    /\ lines = << >>
    /\ line_num = 1
    /\ all_results = << >>
    /\ invoked = << >>
    /\ fates = << >>
    /\ graded = << >>
    /\ stdout = << >>
    /\ returned = NotReturned

\* the value of `classified` while classify_url has not returned
NotClassified == [category |-> "", provider |-> "", url |-> << >>]

\* classify_url has not been called on its own
ClassifyIdle ==
    /\ raw = << >>
    /\ classified = NotClassified

\* what the hub reports when it is not asked
NoHub == [commits |-> << >>, commits_raise |-> FALSE, downloads |-> 0,
          files |-> 0, info_raises |-> FALSE]

\* the value of `bf_out` while bus_factor.compute has not returned
NoPair == [score |-> -1, latency |-> -1]

\* bus_factor.compute has not been called on its own
BusIdle ==
    /\ bf_url = EmptyUrl
    /\ hub = NoHub
    /\ bf_clock = 0
    /\ bf_score = 0
    /\ bf_out = NoPair

\* the value of `lg_out` while get_lineage_graph has not returned
NoLineage == << << "pending" >> >>

\* no model has been asked about
NoParents == [id \in {} |-> << >>]

\* get_lineage_graph has not been called
LineageIdle ==
    /\ lg_arg = << >>
    /\ current_model = << >>
    /\ lineage = << >>
    /\ visited = {}
    /\ parent_of = NoParents
    /\ lg_out = NoLineage

\* None where a score is expected
NoScore == 0 - 2 * One

\* no score is cached
EmptyCache == [url \in {} |-> NoScore]

\* treescore.compute has not been called
TreeIdle ==
    /\ tree_args = [score_fetcher |-> FALSE, current_net_score |-> NoScore]
    /\ tree_call = 1
    /\ ancestors = << >>
    /\ scores = << >>
    /\ score_cache = EmptyCache
    /\ cleared = FALSE
    /\ requests = << >>
    /\ tree_clock = 0
    /\ tree_out = NoPair

\* none of the library functions has been called on its own
LibIdle ==
    /\ ClassifyIdle
    /\ BusIdle
    /\ LineageIdle
    /\ TreeIdle

\* run_metrics is about to be called with the Subject of the reference run
Init ==
    /\ pc = "start"
    /\ scenario = "mid"
    /\ urls = FullSubject
    /\ RunIdle
    /\ ReducerIdle
    /\ IngestIdle
    /\ ProcessorIdle
    /\ LibIdle

\* ------------------------------------------------------------------------
\* The event loop running the tasks of asyncio.gather

\* the loop thread is free: no coroutine is inside a synchronous call
LoopFree == \A m \in Metrics : tstate[m] # "io_blocking"

\* the loop can hand the thread to task m
CanRun(m) ==
    /\ pc = "gather"
    /\ ready # << >>
    /\ Head(ready) = m
    /\ LoopFree

\* run_metrics is entered: the three URLs are taken from the Subject, with
\* "" for what is missing; tasks = [func(model_url, code_url, dataset_url)
\* ...]; gather(*tasks): one task per coroutine, scheduled in the order of
\* the metric table
Launch ==
    /\ pc = "start"
    /\ pc' = "gather"
    /\ tstate' = [m \in Metrics |-> "scheduled"]
    /\ ready' = TaskNames
    /\ UNCHANGED << nawait, started, now, devs, outcome, order >>
    /\ model_url' = UrlOf(urls, "MODEL")
    /\ dataset_url' = UrlOf(urls, "DATASET")
    /\ code_url' = UrlOf(urls, "CODE")
    /\ UNCHANGED << engineVars, frameVars >>

NumRaised == Cardinality({m \in Metrics : outcome[m].kind = "exc"})

\* the coroutine of m ends at clock value t with outcome o
Settle(m, o, t) ==
    /\ tstate' = [tstate EXCEPT ![m] = "settled"]
    /\ outcome' = [outcome EXCEPT ![m] = o]
    /\ order' = Append(order, m)
    /\ devs' = devs + (IF call = 1 /\ IsDeviation(m, o) THEN 1 ELSE 0)
    /\ now' = t

StartOf(m) == IF nawait[m] = 0 THEN now ELSE started[m]

\* the task runs to its end without a (further) network call; a coroutine
\* that calls the network synchronously always makes its call
TaskReturns(m) ==
    /\ CanRun(m)
    /\ ready' = Tail(ready)
    /\ IoKind(m) \in {"none", "await"}
    /\ \E o \in OutcomeChoices(m, now - StartOf(m), devs, NumRaised) : Settle(m, o, now)
    /\ started' = [started EXCEPT ![m] = StartOf(m)]
    /\ UNCHANGED << pc, nawait >>
    /\ UNCHANGED << engineVars, frameVars, argVars >>

\* the task enters a synchronous network call
TaskBlocks(m) ==
    /\ CanRun(m)
    /\ IoKind(m) = "block"
    /\ ready' = Tail(ready)
    /\ tstate' = [tstate EXCEPT ![m] = "io_blocking"]
    /\ started' = [started EXCEPT ![m] = now]
    /\ UNCHANGED << pc, nawait, now, devs, outcome, order >>
    /\ UNCHANGED << engineVars, frameVars, argVars >>

\* the synchronous call returns and the coroutine runs to its end
IoReturn(m) ==
    /\ pc = "gather"
    /\ tstate[m] = "io_blocking"
    /\ \E o \in OutcomeChoices(m, now + IoMs - started[m], devs, NumRaised) :
           Settle(m, o, now + IoMs)
    /\ UNCHANGED << pc, ready, nawait, started >>
    /\ UNCHANGED << engineVars, frameVars, argVars >>

\* the task awaits loop.run_in_executor(...) and suspends
TaskSuspends(m) ==
    /\ CanRun(m)
    /\ IoKind(m) = "await"
    /\ nawait[m] < MaxAwaits(m)
    /\ MayDeviate(devs, NumRaised)
    /\ ready' = Tail(ready)
    /\ tstate' = [tstate EXCEPT ![m] = "awaiting"]
    /\ nawait' = [nawait EXCEPT ![m] = @ + 1]
    /\ started' = [started EXCEPT ![m] = StartOf(m)]
    /\ devs' = devs + 1
    /\ UNCHANGED << pc, now, outcome, order >>
    /\ UNCHANGED << engineVars, frameVars, argVars >>

\* the executor finishes the call; the task's wake-up joins the ready queue
IoComplete(m) ==
    /\ pc = "gather"
    /\ tstate[m] = "awaiting"
    /\ tstate' = [tstate EXCEPT ![m] = "scheduled"]
    /\ ready' = Append(ready, m)
    /\ now' = now + IoMs
    /\ UNCHANGED << pc, nawait, started, devs, outcome, order >>
    /\ UNCHANGED << engineVars, frameVars, argVars >>

\* a gather that returns as soon as one child has raised
GatherDoneEager ==
    \/ \A m \in Metrics : tstate[m] = "settled"
    \/ \E m \in Metrics : outcome[m].kind = "exc"

\* gather(..., return_exceptions=True) is done when every child is done
GatherDone == \A m \in Metrics : tstate[m] = "settled"

\* results collected in order of completion
GatherResultsByCompletion == [i \in 1..Len(order) |-> outcome[order[i]]]

\* its result lists the children's outcomes in the order of the tasks
GatherResults == [i \in 1..Len(TaskNames) |-> outcome[TaskNames[i]]]

GatherReturns ==
    /\ pc = "gather"
    /\ GatherDone
    /\ results' = GatherResults
    /\ pc' = "resolve"
    /\ UNCHANGED << taskVars, frameVars, argVars >>
    /\ UNCHANGED << metric_scores, log, final, error >>

\* ------------------------------------------------------------------------
\* The score record: a dict from key to value

Put(ms, k, v) == [x \in (DOMAIN ms) \cup {k} |-> IF x = k THEN v ELSE ms[x]]

\* dict.get(k, default)
Get(ms, k, default) == IF k \in DOMAIN ms THEN ms[k] ELSE default

\* isinstance(result, Exception)
IsException(res) == res.kind = "exc"

\* score, latency = result  succeeds
Unpacks(res) == res.kind = "ret"

\* a fallback that scores a failed metric 0.0 instead of ERROR_VALUE
FallbackZero(ms, m) ==
    CASE m = "name" -> Put(ms, "name", Str(""))
      [] m = "category" -> Put(ms, "category", Str("MODEL"))
      [] m = "size_score" ->
            Put(Put(ms, "size_score", Dict([dev \in Devices |-> 0])),
                "size_score_latency", Num(0))
      [] OTHER -> Put(Put(ms, m, Num(0)), LatencyKey(m), Num(0))

\* a fallback that writes the error sentinel as latency too
FallbackSentinelLatency(ms, m) ==
    CASE m = "name" -> Put(ms, "name", Str(""))
      [] m = "category" -> Put(ms, "category", Str("MODEL"))
      [] m = "size_score" ->
            Put(Put(ms, "size_score", ErrorSizeScore),
                "size_score_latency", Num(-1))
      [] OTHER -> Put(Put(ms, m, Num(ERROR_VALUE)), LatencyKey(m), Num(-1))

\* a fallback that assigns a fresh record instead of setting one entry
FallbackReset(ms, m) ==
    CASE m = "name" -> Put(EmptyDict, "name", Str(""))
      [] m = "category" -> Put(EmptyDict, "category", Str("MODEL"))
      [] m = "size_score" ->
            Put(Put(EmptyDict, "size_score", ErrorSizeScore),
                "size_score_latency", Num(0))
      [] OTHER -> Put(Put(EmptyDict, m, Num(ERROR_VALUE)), LatencyKey(m), Num(0))

\* the fallback written for a metric that raised
Fallback(ms, m) ==
    CASE m = "name" -> Put(ms, "name", Str(""))
      [] m = "category" -> Put(ms, "category", Str("MODEL"))
      [] m = "size_score" ->
            Put(Put(ms, "size_score", ErrorSizeScore),
                "size_score_latency", Num(0))
      [] OTHER -> Put(Put(ms, m, Num(ERROR_VALUE)), LatencyKey(m), Num(0))

\* the entries written for a metric that returned (score, latency)
\* the entries of a metric that returned, its score clamped to at most 1.0
StoreClamped(ms, m, score, latency) ==
    LET clamped == IF score.t = "num" /\ score.n > One THEN Num(One) ELSE score
    IN  IF m \in {"name", "category"}
        THEN Put(ms, m, clamped)
        ELSE Put(Put(ms, m, clamped), LatencyKey(m), latency)

Store(ms, m, score, latency) ==
    IF m \in {"name", "category"}
    THEN Put(ms, m, score)
    ELSE Put(Put(ms, m, score), LatencyKey(m), latency)

\* the loop over zip(task_names, results), from index i on, in state
\* st = [ms, log, err]; it stops at the first result that is neither an
\* Exception nor a pair
RECURSIVE ResolveFrom(_, _, _)
ResolveFrom(i, res, st) ==
    IF i > Len(TaskNames) \/ i > Len(res) THEN st
    ELSE LET m == TaskNames[i]
             r == res[i]
         IN  IF IsException(r)
             THEN ResolveFrom(i + 1, res,
                      [ms |-> Fallback(st.ms, m),
                       log |-> Append(st.log, m),
                       err |-> ""])
             ELSE IF Unpacks(r)
             THEN ResolveFrom(i + 1, res,
                      [ms |-> Store(st.ms, m, r.score, r.latency),
                       log |-> st.log,
                       err |-> ""])
             ELSE [ms |-> st.ms, log |-> st.log, err |-> "TypeError"]

ResolveAll(res) == ResolveFrom(1, res, [ms |-> EmptyDict, log |-> << >>, err |-> ""])

Resolve ==
    /\ pc = "resolve"
    /\ LET st == ResolveAll(results)
       IN  /\ metric_scores' = st.ms
           /\ log' = st.log
           /\ error' = st.err
           /\ pc' = IF st.err = "" THEN "net" ELSE "raised"
    /\ UNCHANGED << taskVars, frameVars, argVars >>
    /\ UNCHANGED << results, final >>

\* ------------------------------------------------------------------------
\* netscore: the reducer

\* weights in units of 1/100
WEIGHTS == [k \in {"license", "ramp_up_time", "bus_factor",
                   "performance_claims", "dataset_and_code_score",
                   "dataset_quality", "code_quality", "size_score"} |->
              CASE k = "license" -> 18
                [] k = "ramp_up_time" -> 15
                [] k = "bus_factor" -> 12
                [] k = "performance_claims" -> 10
                [] k = "dataset_and_code_score" -> 15
                [] k = "dataset_quality" -> 10
                [] k = "code_quality" -> 10
                [] k = "size_score" -> 10]

\* WEIGHTS.items() iterates in insertion order
WeightOrder == << "license", "ramp_up_time", "bus_factor", "performance_claims",
                 "dataset_and_code_score", "dataset_quality", "code_quality",
                 "size_score" >>

\* a clamp that has no lower bound
boundsTop(x, bottom, top) == IF x > top THEN top ELSE x

bounds(x, bottom, top) ==
    IF x < bottom THEN bottom
    ELSE IF x > top THEN top
    ELSE x

\* truncation to two decimals instead of rounding
Round2Trunc(x, tieUp) == 100 * (x \div 10000)

\* round(x, 2) of a value in units of 1/1000000, as a score in units of
\* 1/10000; tieUp is the direction binary floating point takes when x is
\* exactly half way between two hundredths
Round2(x, tieUp) ==
    LET q == x \div 10000
        r == x % 10000
    IN  100 * (IF r > 5000 \/ (r = 5000 /\ tieUp) THEN q + 1 ELSE q)

\* net after the loop has handled the keys WeightOrder[1..i]
RECURSIVE WeightedSum(_, _)
WeightedSum(metrics, i) ==
    IF i = 0 THEN 0
    ELSE LET key == WeightOrder[i]
             metric_value == bounds(IF key \in DOMAIN metrics
                                    THEN metrics[key] ELSE 0, 0, One)
         IN  WeightedSum(metrics, i - 1) + WEIGHTS[key] * metric_value

\* a reducer whose accumulator is not reset between calls: it starts from
\* the net score of the first invocation
netscore_compute_carried(metrics, tieUp) ==
    Round2(bounds((IF first.net_score.t = "num" THEN 100 * first.net_score.n ELSE 0)
                  + WeightedSum(metrics, Len(WeightOrder)), 0, 100 * One), tieUp)

\* netscore.compute, without its own latency (which run_metrics discards)
netscore_compute(metrics, tieUp) ==
    Round2(bounds(WeightedSum(metrics, Len(WeightOrder)), 0, 100 * One), tieUp)

\* netscore.compute on a mapping of Python values.  A NaN among the
\* weighted inputs goes through unchanged: both comparisons of bounds are
\* false for it, the weighted sum and the final bounds keep it, and
\* round(nan, 2) is nan.  Keys outside WEIGHTS are never read.
compute(metrics, tieUp) ==
    IF \E k \in DOMAIN WEIGHTS \cap DOMAIN metrics : metrics[k].t = "nan"
    THEN NaN
    ELSE Num(netscore_compute(
                 [k \in DOMAIN WEIGHTS \cap DOMAIN metrics |-> metrics[k].n], tieUp))

\* the keys of the mappings compute is called on: the weighted ones and
\* one that has no weight
ReducerKeys == DOMAIN WEIGHTS \cup {"reviewedness"}

\* the values: -1.0, 0.5, 1.0, 5.0 and nan
ReducerValues == {Num(ERROR_VALUE), Num(One \div 2), Num(One), Num(5 * One), NaN}

\* marks a key that the mapping does not have
Missing == [t |-> "missing", n |-> 0, s |-> "", d |-> NoDict]

\* the mapping in which the keys of f are as f says and the others as base
MappingOf(base, f) ==
    LET full == [k \in ReducerKeys |-> IF k \in DOMAIN f THEN f[k] ELSE base]
    IN  [k \in {x \in ReducerKeys : full[x] # Missing} |-> full[k]]

ReducerInputs ==
    {MappingOf(base, f) :
        base \in {Missing, Num(One)},
        f \in UNION {[S -> ReducerValues \cup {Missing}] :
                        S \in {T \in SUBSET ReducerKeys : Cardinality(T) <= MaxOdd}}}

\* net, latency = compute(metrics)
Compute ==
    /\ pc = "compute"
    /\ pc' = "computed"
    /\ \E tieUp \in BOOLEAN :
           /\ net_tie' = tieUp
           /\ net_out' = compute(net_in, tieUp)
    /\ UNCHANGED << net_in, runVars, ingestVars, processorVars, libVars >>

\* ------------------------------------------------------------------------
\* run_metrics after the gather: net score

\* float(x) and int(x) succeed on numbers only
Converts(v) == v.t = "num"

ConversionError(v) == IF v.t = "str" THEN "ValueError" ELSE "TypeError"

\* an override that only fills in a missing dataset_and_code_score
DerivedKeep(ms) ==
    IF "dataset_and_code_score" \in DOMAIN ms
    THEN ms
    ELSE Put(ms, "dataset_and_code_score",
             Num((Get(ms, "dataset_quality", Num(ERROR_VALUE)).n
                  + Get(ms, "code_quality", Num(ERROR_VALUE)).n) \div 2))

\* metric_scores["dataset_and_code_score"] = (dataset_quality + code_quality) / 2.0
DerivedOverride(ms) ==
    Put(ms, "dataset_and_code_score",
        Num((Get(ms, "dataset_quality", Num(ERROR_VALUE)).n
             + Get(ms, "code_quality", Num(ERROR_VALUE)).n) \div 2))

\* the keys that go into the reducer's input
NetScoreKeys(ms) ==
    {k \in DOMAIN ms : /\ k \notin LatencyKeys
                       /\ k \notin {"name", "category", "size_score"}
                       /\ ms[k].t = "num"}

\* an input that also passes size_score, as the mean of its device scores
NetScoreInputSized(ms) ==
    [k \in NetScoreKeys(ms) \cup ({"size_score"} \cap DOMAIN ms) |->
        IF k = "size_score"
        THEN (ms[k].d["raspberry_pi"] + ms[k].d["jetson_nano"]
              + ms[k].d["desktop_pc"] + ms[k].d["aws_server"]) \div 4
        ELSE ms[k].n]

\* an input in which the raspberry_pi score stands for size_score
NetScoreInputSmallest(ms) ==
    [k \in NetScoreKeys(ms) \cup ({"size_score"} \cap DOMAIN ms) |->
        IF k = "size_score" THEN ms[k].d["raspberry_pi"] ELSE ms[k].n]

NetScoreInput(ms) == [k \in NetScoreKeys(ms) |-> ms[k].n]

\* the score record when the reducer's own latency, which is below one
\* millisecond, is kept as net_score_latency
WithReducerLatency(ms, total_time_ms, tieUp) ==
    LET ms1 == DerivedOverride(ms)
        net == netscore_compute(NetScoreInput(ms1), tieUp)
    IN  Put(Put(ms1, "net_score", Num(net)), "net_score_latency", Num(0))

\* the score record after lines 173-193, at elapsed time total_time_ms
WithNetScore(ms, total_time_ms, tieUp) ==
    LET ms1 == DerivedOverride(ms)
        net == netscore_compute(NetScoreInput(ms1), tieUp)
    IN  Put(Put(ms1, "net_score", Num(net)),
            "net_score_latency", Num(total_time_ms))

\* Binary floating point is deterministic: where the first invocation
\* rounded the same reducer input, the second rounds the same way
TieChoices(ms) ==
    IF call = 2 /\ first.input = NetScoreInput(DerivedOverride(ms))
    THEN {first.tie}
    ELSE BOOLEAN

NetScoreStep ==
    /\ pc = "net"
    /\ LET dq == Get(metric_scores, "dataset_quality", Num(ERROR_VALUE))
           cq == Get(metric_scores, "code_quality", Num(ERROR_VALUE))
       IN  IF ~Converts(dq) \/ ~Converts(cq)
           THEN /\ pc' = "raised"
                /\ error' = ConversionError(IF Converts(dq) THEN cq ELSE dq)
                /\ UNCHANGED metric_scores
           ELSE /\ pc' = "assemble"
                /\ \E tieUp \in TieChoices(metric_scores) :
                       metric_scores' = WithNetScore(metric_scores, now, tieUp)
                /\ UNCHANGED error
    /\ UNCHANGED << taskVars, frameVars, argVars >>
    /\ UNCHANGED << results, log, final >>

\* ------------------------------------------------------------------------
\* run_metrics: the GradeResult

\* a GradeResult built without its last field
KeyOrderShort == << "name", "category", "net_score", "net_score_latency",
                    "ramp_up_time", "ramp_up_time_latency",
                    "bus_factor", "bus_factor_latency",
                    "performance_claims", "performance_claims_latency",
                    "license", "license_latency",
                    "size_score", "size_score_latency",
                    "dataset_and_code_score", "dataset_and_code_score_latency",
                    "dataset_quality", "dataset_quality_latency",
                    "code_quality" >>

KeyOrder == << "name", "category", "net_score", "net_score_latency",
               "ramp_up_time", "ramp_up_time_latency",
               "bus_factor", "bus_factor_latency",
               "performance_claims", "performance_claims_latency",
               "license", "license_latency",
               "size_score", "size_score_latency",
               "dataset_and_code_score", "dataset_and_code_score_latency",
               "dataset_quality", "dataset_quality_latency",
               "code_quality", "code_quality_latency" >>

\* str(x)
PyStr(v) ==
    CASE v.t = "str" -> v
      [] v.t = "none" -> Str("None")
      [] OTHER -> Str("<repr>")

\* the score-record entry a field is built from, with its default
Entry(ms, k) ==
    CASE k = "name" -> Get(ms, k, Str(""))
      [] k = "category" -> Get(ms, k, NoneValue)
      [] k = "size_score" -> Get(ms, k, ErrorSizeScore)
      [] k \in LatencyKeys -> Get(ms, k, Num(0))
      [] OTHER -> Get(ms, k, Num(ERROR_VALUE))

\* the field needs float() or int()
Coerced(k) == k \notin {"name", "category", "size_score"}

Field(ms, k) ==
    CASE k = "name" -> PyStr(Entry(ms, k))
      [] k = "category" -> IF Entry(ms, k).t = "str" THEN Entry(ms, k) ELSE Str("MODEL")
      [] OTHER -> Entry(ms, k)

GradeResultOf(ms) == [i \in 1..Len(KeyOrder) |-> << KeyOrder[i], Field(ms, KeyOrder[i]) >>]

\* the fields whose coercion raises
Unconvertible(ms) ==
    {i \in 1..Len(KeyOrder) : Coerced(KeyOrder[i]) /\ ~Converts(Entry(ms, KeyOrder[i]))}

Assemble ==
    /\ pc = "assemble"
    /\ IF Unconvertible(metric_scores) # {}
       THEN /\ pc' = "raised"
            /\ error' = ConversionError(Entry(metric_scores,
                            KeyOrder[CHOOSE i \in Unconvertible(metric_scores) : TRUE]))
            /\ UNCHANGED final
       ELSE /\ pc' = "done"
            /\ final' = GradeResultOf(metric_scores)
            /\ UNCHANGED error
    /\ UNCHANGED << taskVars, frameVars, argVars >>
    /\ UNCHANGED << results, metric_scores, log >>

\* ------------------------------------------------------------------------
\* A caller that grades the same Subject a second time

\* what the caller holds after the first invocation: the reducer input,
\* the net score, the direction its rounding took, and what each metric
\* function did (latencies are measured anew)
FirstOf(ms, outcomes) ==
    LET input == NetScoreInput(ms)
        weighted == [k \in DOMAIN input \ {"net_score"} |-> input[k]]
    IN  [input |-> weighted,
         net_score |-> Get(ms, "net_score", NoneValue),
         tie |-> Get(ms, "net_score", NoneValue).n = netscore_compute(weighted, TRUE),
         outcome |-> [m \in Metrics |-> Replayed(outcomes[m], 0)]]

\* run_metrics has returned; the caller calls it again with the same
\* Subject.  The second invocation repeats the outcomes of the first and
\* departs no further from the reference run: no coroutine suspends in it
Reinvoke ==
    /\ pc = "done"
    /\ call = 1
    /\ devs' = MaxDeviations
    /\ call' = 2
    /\ first' = FirstOf(metric_scores, outcome)
    /\ pc' = "start"
    /\ tstate' = [m \in Metrics |-> "new"]
    /\ ready' = << >>
    /\ nawait' = [m \in Metrics |-> 0]
    /\ started' = [m \in Metrics |-> 0]
    /\ now' = 0
    /\ outcome' = [m \in Metrics |-> Pending]
    /\ order' = << >>
    /\ results' = << >>
    /\ metric_scores' = EmptyDict
    /\ log' = << >>
    /\ final' = << >>
    /\ UNCHANGED << error, scenario, urls, argVars, reducerVars, ingestVars,
                    processorVars, libVars >>

\* ------------------------------------------------------------------------

Next ==
    \/ Launch
    \/ \E m \in Metrics : TaskReturns(m)
    \/ \E m \in Metrics : TaskBlocks(m)
    \/ \E m \in Metrics : IoReturn(m)
    \/ \E m \in Metrics : TaskSuspends(m)
    \/ \E m \in Metrics : IoComplete(m)
    \/ GatherReturns
    \/ Resolve
    \/ NetScoreStep
    \/ Assemble

Spec == Init /\ [][Next]_vars

\* run_metrics is about to be called on a Subject whose scalar metrics all
\* score 1.0
InitOnes ==
    /\ pc = "start"
    /\ scenario = "ones"
    /\ urls = FullSubject
    /\ RunIdle
    /\ ReducerIdle
    /\ IngestIdle
    /\ ProcessorIdle
    /\ LibIdle

SpecOnes == InitOnes /\ [][Next]_vars

\* run_metrics is about to be called with a Subject that has no primary URL
InitSubjects ==
    /\ pc = "start"
    /\ scenario = "mid"
    /\ urls \in EmptySubjects
    /\ RunIdle
    /\ ReducerIdle
    /\ IngestIdle
    /\ ProcessorIdle
    /\ LibIdle

SpecSubjects == InitSubjects /\ [][Next]_vars

NextTwice ==
    \/ Next
    \/ Reinvoke

\* the same Subject graded twice
SpecTwice == Init /\ [][NextTwice]_vars

\* netscore.compute is about to be called on some mapping
InitReducer ==
    /\ pc = "compute"
    /\ scenario = "mid"
    /\ urls = FullSubject
    /\ RunIdle
    /\ IngestIdle
    /\ ProcessorIdle
    /\ LibIdle
    /\ net_in \in ReducerInputs
    /\ net_tie = FALSE
    /\ net_out = NoneValue

NextReducer == Compute

SpecReducer == InitReducer /\ [][NextReducer]_vars

TypeOK ==
    /\ pc \in {"start", "gather", "resolve", "net", "assemble", "done", "raised",
              "compute", "computed", "ingest", "ingested", "lines", "returned",
              "classify", "classified", "bf_start", "bf_commits", "bf_info",
              "bf_done", "lg_start", "lg_loop", "lg_done",
              "tree_loop", "tree_done"}
    /\ devs \in 0..MaxDeviations
    /\ now >= 0

\* ========================================================================
\* Properties

\* the fields of the GradeResult TypedDict, in declaration order
GradeResultFields == << "name", "category", "net_score", "net_score_latency",
                        "ramp_up_time", "ramp_up_time_latency",
                        "bus_factor", "bus_factor_latency",
                        "performance_claims", "performance_claims_latency",
                        "license", "license_latency",
                        "size_score", "size_score_latency",
                        "dataset_and_code_score", "dataset_and_code_score_latency",
                        "dataset_quality", "dataset_quality_latency",
                        "code_quality", "code_quality_latency" >>

KeysOf(g) == [i \in 1..Len(g) |-> g[i][1]]

\* g[k] of a GradeResult g (None when the key is missing)
ValueIn(g, k) ==
    IF \E i \in 1..Len(g) : g[i][1] = k
    THEN g[CHOOSE i \in 1..Len(g) : g[i][1] = k][2]
    ELSE NoneValue

FinalValue(k) == ValueIn(final, k)

IndexOf(m) == CHOOSE i \in 1..Len(TaskNames) : TaskNames[i] = m

\* the metric returned a pair of the types its contract names
ReturnedTyped(m) ==
    /\ outcome[m].kind = "ret"
    /\ m \in Scalars => outcome[m].score.t = "num"
    /\ m = "size_score" => outcome[m].score.t = "dict"
    /\ m \in {"name", "category"} => outcome[m].score.t = "str"
    /\ m \notin {"name", "category"} => outcome[m].latency.t = "num"

RaisedException(m) == outcome[m].kind = "exc"

InRange(x) == (0 <= x /\ x <= One) \/ x = ERROR_VALUE

ScalarScoreFields == Scalars \cup {"net_score"}

\* the GradeResult run_metrics returns for the result list res when the
\* clock reads total_time_ms at the end
GradeOf(res, total_time_ms, tieUp) ==
    GradeResultOf(WithNetScore(ResolveAll(res).ms, total_time_ms, tieUp))

\* ------------------------------------------------------------------------
\* model_ingest: the acceptance rule

DEFAULT_THRESHOLD == 5000

metrics_to_check == << "net_score", "ramp_up_time", "bus_factor",
                       "performance_claims", "license", "dataset_and_code_score",
                       "dataset_quality", "code_quality" >>

\* a rule that also rejects a score equal to the threshold
model_ingest_strict(metric_scores_arg, threshold) ==
    /\ \A i \in 1..Len(metrics_to_check) :
           ~(ValueIn(metric_scores_arg, metrics_to_check[i]).n <= threshold)
    /\ \A hardware_name \in DOMAIN ValueIn(metric_scores_arg, "size_score").d :
           ~(ValueIn(metric_scores_arg, "size_score").d[hardware_name] <= threshold)

\* the value model_ingest returns: no checked metric and no size_score
\* subscore compares below the threshold
model_ingest(metric_scores_arg, threshold) ==
    /\ \A i \in 1..Len(metrics_to_check) :
           ~(ValueIn(metric_scores_arg, metrics_to_check[i]).n < threshold)
    /\ \A hardware_name \in DOMAIN ValueIn(metric_scores_arg, "size_score").d :
           ~(ValueIn(metric_scores_arg, "size_score").d[hardware_name] < threshold)

\* the scores of the GradeResults model_ingest is called on: -1.0, 0.49,
\* 0.5 and 1.0; and the thresholds
IngestScores == {ERROR_VALUE, 4900, 5000, One}
IngestThresholds == {0, DEFAULT_THRESHOLD, 8000}

\* the slots model_ingest reads: the eight metrics and the four devices
IngestSlots == {metrics_to_check[i] : i \in 1..Len(metrics_to_check)} \cup Devices

\* the GradeResult in which the slots of f score as f says and the others 1.0
GradeResultWith(f) ==
    LET score(k) == IF k \in DOMAIN f THEN f[k] ELSE One
    IN  [i \in 1..Len(GradeResultFields) |->
            LET k == GradeResultFields[i]
            IN  << k, CASE k = "name" -> Str("bert-base-uncased")
                        [] k = "category" -> Str("MODEL")
                        [] k = "size_score" -> Dict([dev \in Devices |-> score(dev)])
                        [] k \in LatencyKeys -> Num(1)
                        [] OTHER -> Num(score(k)) >>]

IngestInputs ==
    {GradeResultWith(f) :
        f \in UNION {[S -> IngestScores] :
                        S \in {T \in SUBSET IngestSlots : Cardinality(T) <= MaxLow}}}

\* model_ingest(metric_scores, threshold): it reads its argument only
Ingest ==
    /\ pc = "ingest"
    /\ pc' = "ingested"
    /\ ingest_out' = [accepted |-> model_ingest(ingest_arg, ingest_threshold),
                      after |-> ingest_arg]
    /\ UNCHANGED << ingest_arg, ingest_threshold, runVars, reducerVars,
                    processorVars, libVars >>

\* model_ingest is about to be called
InitIngest ==
    /\ pc = "ingest"
    /\ scenario = "mid"
    /\ urls = FullSubject
    /\ RunIdle
    /\ ReducerIdle
    /\ ingest_arg \in IngestInputs
    /\ ingest_threshold \in IngestThresholds
    /\ ingest_out = NoVerdict
    /\ ProcessorIdle
    /\ LibIdle

NextIngest == Ingest

SpecIngest == InitIngest /\ [][NextIngest]_vars

\* ------------------------------------------------------------------------
\* run.py: classify_url and urls_processor

OtherUrl == Url("example.com", << "page" >>)

UrlSamples == {ModelUrl, DatasetUrl, CodeUrl, OtherUrl}

\* A string is a sequence of pieces, each standing for the characters it
\* is written with; no piece is part of another one.
Pieces == {" ", "/", "huggingface.co", "HuggingFace.CO", "github.com",
           "GitHub.COM", "datasets", "DATASETS", "x"}

\* str.lower on one piece
LowerPiece(p) ==
    CASE p = "HuggingFace.CO" -> "huggingface.co"
      [] p = "GitHub.COM" -> "github.com"
      [] p = "DATASETS" -> "datasets"
      [] OTHER -> p

\* s.lower()
lower(s) == [i \in 1..Len(s) |-> LowerPiece(s[i])]

\* s.rstrip(ch)
rstrip(s, ch) ==
    LET keep == {i \in 1..Len(s) : s[i] # ch}
    IN  IF keep = {} THEN << >>
        ELSE SubSeq(s, 1, CHOOSE i \in keep : \A j \in keep : j <= i)

\* s.lstrip(ch)
lstrip(s, ch) ==
    LET keep == {i \in 1..Len(s) : s[i] # ch}
    IN  IF keep = {} THEN << >>
        ELSE SubSeq(s, CHOOSE i \in keep : \A j \in keep : i <= j, Len(s))

\* s.strip()
strip(s) == lstrip(rstrip(s, " "), " ")

\* sub in s
Contains(s, sub) ==
    \E i \in 0..(Len(s) - Len(sub)) : SubSeq(s, i + 1, i + Len(sub)) = sub

\* s.endswith(sub)
EndsWith(s, sub) ==
    Len(sub) <= Len(s) /\ SubSeq(s, Len(s) - Len(sub) + 1, Len(s)) = sub

\* classify_url: the category, the provider and the url metadata
classify_url(raw_arg) ==
    LET s == strip(raw_arg)
        s_lower == lower(s)
    IN  IF s = << >>
        THEN [category |-> "OTHER", provider |-> "OTHER", url |-> << >>]
        ELSE IF Contains(s_lower, << "huggingface.co" >>)
        THEN IF \/ Contains(s_lower, << "/", "datasets", "/" >>)
                \/ EndsWith(rstrip(s, "/"), << "/", "datasets" >>)
             THEN [category |-> "DATASET", provider |-> "HUGGINGFACE", url |-> s]
             ELSE [category |-> "MODEL", provider |-> "HUGGINGFACE", url |-> s]
        ELSE IF Contains(s_lower, << "github.com" >>)
        THEN [category |-> "CODE", provider |-> "GITHUB", url |-> s]
        ELSE [category |-> "OTHER", provider |-> "OTHER", url |-> s]

\* the strings classify_url is called with
RawStrings == UNION {[1..n -> Pieces] : n \in 0..MaxPieces}

\* the call and return of classify_url
Classify ==
    /\ pc = "classify"
    /\ pc' = "classified"
    /\ classified' = classify_url(raw)
    /\ UNCHANGED << raw, runVars, reducerVars, ingestVars, processorVars, busVars,
                    lineageVars, treeVars >>

\* classify_url is about to be called with some string
InitClassify ==
    /\ pc = "classify"
    /\ scenario = "mid"
    /\ urls = FullSubject
    /\ RunIdle
    /\ ReducerIdle
    /\ IngestIdle
    /\ ProcessorIdle
    /\ raw \in RawStrings
    /\ classified = NotClassified
    /\ BusIdle
    /\ LineageIdle
    /\ TreeIdle

NextClassify == Classify

SpecClassify == InitClassify /\ [][NextClassify]_vars

\* ------------------------------------------------------------------------
\* bus_factor.py

\* math.log2 is computed to LogBits binary places
LogBits == 14
LogScale == 2 ^ LogBits

\* floor(log2(num / den))
RECURSIVE FloorLog2(_, _)
FloorLog2(num, den) ==
    IF num < den THEN FloorLog2(2 * num, den) - 1
    ELSE IF num >= 2 * den THEN FloorLog2(num, 2 * den) + 1
    ELSE 0

\* num / den / 2^FloorLog2(num, den), a number in [1, 2), times LogScale
RECURSIVE Mantissa(_, _)
Mantissa(num, den) ==
    IF num < den THEN Mantissa(2 * num, den)
    ELSE IF num >= 2 * den THEN Mantissa(num, 2 * den)
    ELSE (num * LogScale) \div den

\* the binary places i..LogBits of log2(x / LogScale), times LogScale
RECURSIVE FracBits(_, _)
FracBits(x, i) ==
    IF i > LogBits THEN 0
    ELSE LET y == (x * x) \div LogScale
         IN  IF y >= 2 * LogScale
             THEN 2 ^ (LogBits - i) + FracBits(y \div 2, i + 1)
             ELSE FracBits(y, i + 1)

\* math.log2(num / den), in 1/One
log2(num, den) ==
    FloorLog2(num, den) * One + (FracBits(Mantissa(num, den), 1) * One) \div LogScale

Authors == {"a", "b", "c"}

\* the authors of one commit
AuthorLists == {<< >>, << "a" >>, << "b" >>, << "c" >>, << "a", "b" >>}

\* the commit lists and hub reports bus_factor.compute may meet
Commits == UNION {[1..n -> AuthorLists] : n \in 0..MaxCommits}
DownloadCounts == {0, 1, 3, 1000}
FileCounts == {0, 1, 7}
HubReports ==
    [commits : Commits, commits_raise : BOOLEAN, downloads : DownloadCounts,
     files : FileCounts, info_raises : BOOLEAN]

\* the model URLs it is called with: none, one with an owner and a
\* repository, one with a single path segment
BusUrls == {EmptyUrl, ModelUrl, Url("huggingface.co", << "gpt2" >>)}

\* how often author appears in authors
RECURSIVE Occurrences(_, _)
Occurrences(authors, author) ==
    IF authors = << >> THEN 0
    ELSE (IF Head(authors) = author THEN 1 ELSE 0) + Occurrences(Tail(authors), author)

\* contributions[author] after the loop over the commits
RECURSIVE Contribution(_, _)
Contribution(commits, author) ==
    IF commits = << >> THEN 0
    ELSE Occurrences(Head(commits), author) + Contribution(Tail(commits), author)

\* the keys of contributions
Contributors(commits) == {a \in Authors : Contribution(commits, a) > 0}

RECURSIVE TotalCommits(_)
TotalCommits(commits) ==
    IF commits = << >> THEN 0 ELSE Len(Head(commits)) + TotalCommits(Tail(commits))

\* -sum((count / total) * log2(count / total)), in 1/One
RECURSIVE EntropyOver(_, _, _)
EntropyOver(commits, authors, total) ==
    IF authors = {} THEN 0
    ELSE LET a == CHOOSE x \in authors : TRUE
             count == Contribution(commits, a)
         IN  (count * (0 - log2(count, total))) \div total
             + EntropyOver(commits, authors \ {a}, total)

\* entropy / max_entropy if max_entropy > 0 else 0.0
BusFactorScore(commits) ==
    LET entropy == EntropyOver(commits, Contributors(commits), TotalCommits(commits))
        max_entropy == log2(Cardinality(Contributors(commits)), 1)
    IN  IF max_entropy > 0 THEN (entropy * One) \div max_entropy ELSE 0

\* math.log2(count + 1) if count > 0 else 0
Normalized(count) == IF count > 0 THEN log2(count + 1, 1) ELSE 0

\* (bus_factor_score + normalized_downloads + normalized_files) / 2.5
CombinedScore(score, downloads, files) ==
    ((score + Normalized(downloads) + Normalized(files)) * 10) \div 25

\* the call up to the first await: no URL or fewer than two path segments
\* returns (0.0, 0), otherwise list_repo_commits is awaited
BusStart ==
    /\ pc = "bf_start"
    /\ IF bf_url = EmptyUrl \/ Len(bf_url.path) < 2
       THEN /\ pc' = "bf_done"
            /\ bf_out' = [score |-> 0, latency |-> 0]
       ELSE /\ pc' = "bf_commits"
            /\ UNCHANGED bf_out
    /\ UNCHANGED << bf_url, hub, bf_clock, bf_score >>
    /\ UNCHANGED << runVars, reducerVars, ingestVars, processorVars, classifyVars,
                    lineageVars, treeVars >>

\* list_repo_commits has finished: the early returns with score 0.0, or
\* the entropy score and the await of model_info
BusCommits ==
    /\ pc = "bf_commits"
    /\ \E elapsed \in 0..IoMs :
           /\ bf_clock' = bf_clock + elapsed
           /\ IF \/ hub.commits_raise
                 \/ hub.commits = << >>
                 \/ Cardinality(Contributors(hub.commits)) <= 1
                 \/ TotalCommits(hub.commits) = 0
              THEN /\ pc' = "bf_done"
                   /\ bf_out' = [score |-> 0, latency |-> bf_clock']
                   /\ UNCHANGED bf_score
              ELSE /\ pc' = "bf_info"
                   /\ bf_score' = BusFactorScore(hub.commits)
                   /\ UNCHANGED bf_out
    /\ UNCHANGED << bf_url, hub >>
    /\ UNCHANGED << runVars, reducerVars, ingestVars, processorVars, classifyVars,
                    lineageVars, treeVars >>

\* model_info has finished or raised: the combined score is returned
BusInfo ==
    /\ pc = "bf_info"
    /\ pc' = "bf_done"
    /\ \E elapsed \in 0..IoMs :
           LET download_count == IF hub.info_raises THEN 0 ELSE hub.downloads
               file_count == IF hub.info_raises THEN 0 ELSE hub.files
           IN  /\ bf_clock' = bf_clock + elapsed
               /\ bf_out' = [score |-> CombinedScore(bf_score, download_count, file_count),
                             latency |-> bf_clock']
    /\ UNCHANGED << bf_url, hub, bf_score >>
    /\ UNCHANGED << runVars, reducerVars, ingestVars, processorVars, classifyVars,
                    lineageVars, treeVars >>

\* bus_factor.compute is about to be called
InitBusFactor ==
    /\ pc = "bf_start"
    /\ scenario = "mid"
    /\ urls = FullSubject
    /\ RunIdle
    /\ ReducerIdle
    /\ IngestIdle
    /\ ProcessorIdle
    /\ ClassifyIdle
    /\ bf_url \in BusUrls
    /\ hub \in HubReports
    /\ bf_clock = 0
    /\ bf_score = 0
    /\ bf_out = NoPair
    /\ LineageIdle
    /\ TreeIdle

NextBusFactor ==
    \/ BusStart
    \/ BusCommits
    \/ BusInfo

SpecBusFactor == InitBusFactor /\ [][NextBusFactor]_vars

\* ------------------------------------------------------------------------
\* lineage_graph.py: get_lineage_graph

\* the piece "https://huggingface.co/"
Prefix == "https://huggingface.co/"

\* model ids, each one piece
ModelIds == {"org/m", "org/p", "org/q"}

\* the arguments get_lineage_graph is called with: a URL or a bare id, with
\* or without a trailing slash, and strings without an id
LineageArgs ==
    {<< >>, << Prefix >>}
    \cup {<< id >> : id \in ModelIds}
    \cup {<< id, "/" >> : id \in ModelIds}
    \cup {<< Prefix, id >> : id \in ModelIds}
    \cup {<< Prefix, id, "/" >> : id \in ModelIds}

\* model_url_or_id.startswith(prefix)
StartsWith(s, sub) == Len(sub) <= Len(s) /\ SubSeq(s, 1, Len(sub)) = sub

\* the bare model id of the argument
ModelIdOf(model_url_or_id) ==
    IF StartsWith(model_url_or_id, << Prefix >>)
    THEN lstrip(rstrip(SubSeq(model_url_or_id, 2, Len(model_url_or_id)), "/"), "/")
    ELSE lstrip(rstrip(model_url_or_id, "/"), "/")

\* f"https://huggingface.co/{current_model}"
UrlOfModel(model) == << Prefix >> \o model

\* what extract_lineage_with_llm may return: a list of model ids
ParentLists == UNION {[1..n -> {<< id >> : id \in ModelIds}] : n \in 0..MaxParents}

\* lineage as returned when the list is not reversed
Unreversed(seq) == seq

\* lineage[::-1]
Reversed(seq) == [i \in 1..Len(seq) |-> seq[Len(seq) + 1 - i]]

\* the argument is normalised to a bare model id
LineageStart ==
    /\ pc = "lg_start"
    /\ pc' = "lg_loop"
    /\ current_model' = ModelIdOf(lg_arg)
    /\ lineage' = << >>
    /\ visited' = {}
    /\ UNCHANGED << lg_arg, parent_of, lg_out >>
    /\ UNCHANGED << runVars, reducerVars, ingestVars, processorVars, classifyVars,
                    busVars, treeVars >>

\* the LLM is asked with temperature 0: asked about a model again, it names
\* the same first parent
SameAnswer(model, parent_models) ==
    model \in DOMAIN parent_of =>
        parent_of[model] = IF parent_models = << >> THEN << >> ELSE parent_models[1]

\* one pass of the while loop: the model is recorded and the LLM is asked
\* for its parents; without parents the loop is left and the list returned
LineageStep ==
    /\ pc = "lg_loop"
    /\ current_model # << >>
    /\ current_model \notin visited
    /\ lineage' = Append(lineage, UrlOfModel(current_model))
    /\ visited' = visited \cup {current_model}
    /\ \E parent_models \in ParentLists :
           /\ SameAnswer(current_model, parent_models)
           /\ IF parent_models = << >>
              THEN /\ parent_of' = Put(parent_of, current_model, << >>)
                   /\ pc' = "lg_done"
                   /\ lg_out' = Reversed(lineage')
                   /\ UNCHANGED current_model
              ELSE /\ parent_of' = Put(parent_of, current_model, parent_models[1])
                   /\ current_model' = parent_models[1]
                   /\ UNCHANGED << pc, lg_out >>
    /\ UNCHANGED lg_arg
    /\ UNCHANGED << runVars, reducerVars, ingestVars, processorVars, classifyVars,
                    busVars, treeVars >>

\* the loop condition fails: the list is returned
LineageReturn ==
    /\ pc = "lg_loop"
    /\ current_model = << >> \/ current_model \in visited
    /\ pc' = "lg_done"
    /\ lg_out' = Reversed(lineage)
    /\ UNCHANGED << lg_arg, current_model, lineage, visited, parent_of >>
    /\ UNCHANGED << runVars, reducerVars, ingestVars, processorVars, classifyVars,
                    busVars, treeVars >>

\* get_lineage_graph is about to be called
InitLineage ==
    /\ pc = "lg_start"
    /\ scenario = "mid"
    /\ urls = FullSubject
    /\ RunIdle
    /\ ReducerIdle
    /\ IngestIdle
    /\ ProcessorIdle
    /\ ClassifyIdle
    /\ BusIdle
    /\ lg_arg \in LineageArgs
    /\ current_model = << >>
    /\ lineage = << >>
    /\ visited = {}
    /\ parent_of = NoParents
    /\ lg_out = NoLineage
    /\ TreeIdle

NextLineage ==
    \/ LineageStart
    \/ LineageStep
    \/ LineageReturn

SpecLineage == InitLineage /\ [][NextLineage]_vars

\* the call runs on: a statement that can be executed is executed
SpecLineageFair == InitLineage /\ [][NextLineage]_vars /\ WF_vars(NextLineage)

\* ------------------------------------------------------------------------
\* treescore.py

\* the model URLs treescore.compute is called with
TreeUrls == {<< >>} \cup {<< Prefix, id >> : id \in ModelIds}

\* whether a score_fetcher is passed, and current_net_score
TreeArgs == [score_fetcher : BOOLEAN, current_net_score : {NoScore, 7000}]

\* what score_fetcher does: returns None, a negative number or a score,
\* or raises
FetcherOutcomes == {"none", "negative", "score", "raises"}
FetchedScore == 8000

\* what run_metrics does: raises, or returns a GradeResult with this
\* net_score
RunOutcomes == {"raises", "zero", "one"}
RunScore(r) == IF r = "one" THEN One ELSE 0

\* _get_ancestor_score: what the call did and returned, given what the
\* fetcher and run_metrics do when they are called
AncestorRequest(url, cache, fetcher, f, r) ==
    LET hit == url \in DOMAIN cache
        fetched == ~hit /\ fetcher /\ f = "score"
        computes == ~hit /\ ~fetched
    IN  [url |-> url,
         call |-> tree_call,
         cleared |-> cleared,
         hit |-> hit,
         fetcher_called |-> ~hit /\ fetcher,
         fetcher_outcome |-> IF ~hit /\ fetcher THEN f ELSE "",
         run_called |-> computes,
         run_outcome |-> IF computes THEN r ELSE "",
         score |-> IF hit THEN cache[url]
                   ELSE IF fetched THEN FetchedScore
                   ELSE IF r = "raises" THEN NoScore
                   ELSE RunScore(r)]

\* the request with the cache consulted only for scores that are true
ancestor_score_truthy(url, cache, fetcher, f, r) ==
    AncestorRequest(url, [u \in {x \in DOMAIN cache : cache[x] # 0} |-> cache[u]],
                    fetcher, f, r)

\* the request as _get_ancestor_score makes it
ancestor_score(url, cache, fetcher, f, r) == AncestorRequest(url, cache, fetcher, f, r)

\* _score_cache after the request
CacheAfter(cache, req) ==
    IF ~req.hit /\ req.score # NoScore THEN Put(cache, req.url, req.score) ELSE cache

\* sum(scores)
RECURSIVE Sum(_)
Sum(seq) == IF seq = << >> THEN 0 ELSE Head(seq) + Sum(Tail(seq))

\* the mean taken over every ancestor
MeanOverAncestors(seq, n) == IF seq = << >> THEN 0 ELSE Sum(seq) \div n

\* sum(scores) / len(scores), or 0.0 without scores
Mean(seq, n) == IF seq = << >> THEN 0 ELSE Sum(seq) \div Len(seq)

\* get_lineage_graph has returned: the current model is dropped; without
\* ancestors the fallback score is returned
TreeAncestors ==
    /\ pc = "lg_done"
    /\ LET dropped == IF lg_out # << >> THEN SubSeq(lg_out, 1, Len(lg_out) - 1)
                      ELSE lg_out
       IN  IF dropped = << >>
           THEN /\ pc' = "tree_done"
                /\ tree_out' = [score |-> IF tree_args.current_net_score # NoScore
                                           THEN tree_args.current_net_score ELSE 0,
                                latency |-> tree_clock]
                /\ UNCHANGED << ancestors, scores >>
           ELSE /\ pc' = "tree_loop"
                /\ ancestors' = dropped
                /\ scores' = << >>
                /\ UNCHANGED tree_out
    /\ UNCHANGED << tree_args, tree_call, score_cache, cleared, requests, tree_clock >>
    /\ UNCHANGED << runVars, reducerVars, ingestVars, processorVars, classifyVars,
                    busVars, lineageVars >>

\* one pass of the loop over the ancestors: _get_ancestor_score is awaited
\* and its score kept when it is a score >= 0
TreeScoreAncestor ==
    /\ pc = "tree_loop"
    /\ ancestors # << >>
    /\ \E f \in FetcherOutcomes, r \in RunOutcomes :
           LET req == ancestor_score(Head(ancestors), score_cache,
                                     tree_args.score_fetcher, f, r)
           IN  /\ requests' = Append(requests, req)
               /\ score_cache' = CacheAfter(score_cache, req)
               /\ scores' = IF req.score # NoScore /\ req.score >= 0
                             THEN Append(scores, req.score) ELSE scores
               /\ tree_clock' = tree_clock + (IF req.run_called THEN IoMs ELSE 0)
    /\ ancestors' = Tail(ancestors)
    /\ UNCHANGED << pc, tree_args, tree_call, cleared, tree_out >>
    /\ UNCHANGED << runVars, reducerVars, ingestVars, processorVars, classifyVars,
                    busVars, lineageVars >>

\* every ancestor was asked for: the mean is returned
TreeReturn ==
    /\ pc = "tree_loop"
    /\ ancestors = << >>
    /\ pc' = "tree_done"
    /\ tree_out' = [score |-> Mean(scores, Len(lg_out) - 1), latency |-> tree_clock]
    /\ UNCHANGED << tree_args, tree_call, ancestors, scores, score_cache, cleared,
                    requests, tree_clock >>
    /\ UNCHANGED << runVars, reducerVars, ingestVars, processorVars, classifyVars,
                    busVars, lineageVars >>

\* clear_cache, called between the two calls of treescore.compute
ClearCache ==
    /\ pc = "tree_done"
    /\ tree_call = 1
    /\ ~cleared
    /\ cleared' = TRUE
    /\ score_cache' = EmptyCache
    /\ UNCHANGED << pc, tree_args, tree_call, ancestors, scores, requests,
                    tree_clock, tree_out >>
    /\ UNCHANGED << runVars, reducerVars, ingestVars, processorVars, classifyVars,
                    busVars, lineageVars >>

\* treescore.compute is called a second time with the same arguments, in
\* the same process
TreeAgain ==
    /\ pc = "tree_done"
    /\ tree_call = 1
    /\ tree_call' = 2
    /\ pc' = "lg_start"
    /\ UNCHANGED << tree_args, lg_arg >>
    /\ ancestors' = << >>
    /\ scores' = << >>
    /\ tree_clock' = 0
    /\ tree_out' = NoPair
    /\ lg_out' = NoLineage
    /\ UNCHANGED << current_model, lineage, visited, parent_of >>
    /\ UNCHANGED << score_cache, cleared, requests >>
    /\ UNCHANGED << runVars, reducerVars, ingestVars, processorVars, classifyVars,
                    busVars >>

\* treescore.compute is about to be called for the first time
InitTree ==
    /\ pc = "lg_start"
    /\ scenario = "mid"
    /\ urls = FullSubject
    /\ RunIdle
    /\ ReducerIdle
    /\ IngestIdle
    /\ ProcessorIdle
    /\ ClassifyIdle
    /\ BusIdle
    /\ lg_arg \in TreeUrls
    /\ current_model = << >>
    /\ lineage = << >>
    /\ visited = {}
    /\ parent_of = NoParents
    /\ lg_out = NoLineage
    /\ tree_args \in TreeArgs
    /\ tree_call = 1
    /\ ancestors = << >>
    /\ scores = << >>
    /\ score_cache = EmptyCache
    /\ cleared = FALSE
    /\ requests = << >>
    /\ tree_clock = 0
    /\ tree_out = NoPair

NextTree ==
    \/ LineageStart
    \/ LineageStep
    \/ LineageReturn
    \/ TreeAncestors
    \/ TreeScoreAncestor
    \/ TreeReturn
    \/ ClearCache
    \/ TreeAgain

SpecTree == InitTree /\ [][NextTree]_vars

\* the string a URL of the URL file is written as
RECURSIVE PathString(_)
PathString(path) ==
    IF path = << >> THEN << >>
    ELSE << "/", Head(path) >> \o PathString(Tail(path))

StringOf(url) == IF url = EmptyUrl THEN << >> ELSE << url.host >> \o PathString(url.path)

\* the category classify_url gives a URL of the URL file
CategoryOf(url) == classify_url(StringOf(url)).category

\* url_dictionary after the loop has handled url_parts[1..i]; raises holds
\* the positions at which the classification raised
RECURSIVE Classified(_, _, _)
Classified(url_parts, raises, i) ==
    IF i = 0 THEN [c \in {} |-> NoUrlInfo]
    ELSE LET before == Classified(url_parts, raises, i - 1)
         IN  IF i \in raises THEN before
             ELSE Put(before, CategoryOf(url_parts[i]), UrlInfo(url_parts[i]))

\* how the handling of a line with a MODEL URL goes on: every step
\* succeeds; run_metrics raises; writing the result to stdout raises;
\* importing s3_utils raises; the upload raises
LineOutcomes == {"ok", "metrics_raise", "write_raises", "import_raises",
                 "upload_raises"}

Lines == UNION {[1..k -> UrlSamples] : k \in 0..MaxUrls}
Files == UNION {[1..n -> Lines] : n \in 0..MaxLines}

\* one pass of the loop over the lines
ProcessLine ==
    /\ pc = "lines"
    /\ line_num <= Len(lines)
    /\ line_num' = line_num + 1
    /\ \E raises \in SUBSET (1..Len(lines[line_num])), after \in LineOutcomes :
           LET url_parts == lines[line_num]
               url_dictionary == Classified(url_parts, raises, Len(url_parts))
               result == [line |-> line_num, url |-> UrlOf(url_dictionary, "MODEL")]
           IN  IF url_parts = << >> \/ "MODEL" \notin DOMAIN url_dictionary
               THEN UNCHANGED << all_results, invoked, fates, graded, stdout >>
               ELSE /\ invoked' = Append(invoked, line_num)
                    /\ fates' = Append(fates, after)
                    /\ graded' = IF after = "metrics_raise" THEN graded
                                 ELSE Append(graded, result)
                    /\ stdout' = IF after \in {"metrics_raise", "write_raises"}
                                 THEN stdout ELSE Append(stdout, result)
                    /\ all_results' = IF after \in {"ok", "upload_raises"}
                                      THEN Append(all_results, result)
                                      ELSE all_results
    /\ UNCHANGED << pc, lines, returned, runVars, reducerVars, ingestVars, libVars >>

\* return all_results[-1] if all_results else {}
Return ==
    /\ pc = "lines"
    /\ line_num > Len(lines)
    /\ pc' = "returned"
    /\ returned' = IF all_results # << >> THEN all_results[Len(all_results)]
                   ELSE EmptyResult
    /\ UNCHANGED << lines, line_num, all_results, invoked, fates, graded, stdout,
                    runVars, reducerVars, ingestVars, libVars >>

\* urls_processor is about to read the lines of an existing file
InitProcessor ==
    /\ pc = "lines"
    /\ scenario = "mid"
    /\ urls = FullSubject
    /\ RunIdle
    /\ ReducerIdle
    /\ IngestIdle
    /\ lines \in Files
    /\ line_num = 1
    /\ all_results = << >>
    /\ invoked = << >>
    /\ fates = << >>
    /\ graded = << >>
    /\ stdout = << >>
    /\ returned = NotReturned
    /\ LibIdle

NextProcessor ==
    \/ ProcessLine
    \/ Return

SpecProcessor == InitProcessor /\ [][NextProcessor]_vars

\* C1: whenever each of the ten metric functions either raised an
\* Exception or returned a (value, latency) pair of its contract's types,
\* run_metrics returns, and the GradeResult has exactly the 20 top-level
\* keys of the schema.
C1_AllKeysPresent ==
    (pc \in {"done", "raised"}
     /\ \A m \in Metrics : RaisedException(m) \/ ReturnedTyped(m))
    => /\ pc = "done"
       /\ Len(final) = 20
       /\ {final[i][1] : i \in 1..Len(final)}
            = {GradeResultFields[i] : i \in 1..Len(GradeResultFields)}

\* all ten metrics raised and a GradeResult was returned
C1_Witness == pc = "done" /\ \A m \in Metrics : RaisedException(m)

\* C2 (as claimed): when every scalar metric raised or returned a score in
\* [0, 1] or -1.0, every scalar score field of the GradeResult is in
\* [0, 1] or is -1.0.
C2_ScoresInRange ==
    (pc = "done"
     /\ \A m \in Scalars :
           RaisedException(m)
           \/ (ReturnedTyped(m) /\ InRange(outcome[m].score.n)))
    => \A k \in ScalarScoreFields :
           FinalValue(k).t = "num" /\ InRange(FinalValue(k).n)

\* the fallback visible in the GradeResult for a metric that raised
FallbackShown(m) ==
    CASE m = "name" -> FinalValue("name") = Str("")
      [] m = "category" -> FinalValue("category") = Str("MODEL")
      [] m = "size_score" ->
            /\ FinalValue("size_score") = Dict([dev \in Devices |-> ERROR_VALUE])
            /\ FinalValue("size_score_latency") = Num(0)
      [] OTHER ->
            /\ FinalValue(m) = Num(ERROR_VALUE)
            /\ FinalValue(LatencyKey(m)) = Num(0)

IsMeanOfParts(g) ==
    2 * ValueIn(g, "dataset_and_code_score").n
      = ValueIn(g, "dataset_quality").n + ValueIn(g, "code_quality").n

\* C3 (as claimed): every metric that raised shows its fallback in the
\* GradeResult, dataset_and_code_score included (score -1.0, latency 0).
C3_Original ==
    pc = "done" => \A m \in Metrics : RaisedException(m) => FallbackShown(m)

\* C3 (amended): every metric that raised shows its fallback in the
\* GradeResult, except that a failed dataset_and_code_score shows latency 0
\* and, as score, the mean of dataset_quality and code_quality.
C3_Fallbacks ==
    pc = "done" =>
        \A m \in Metrics : RaisedException(m) =>
            IF m = "dataset_and_code_score"
            THEN /\ FinalValue(LatencyKey(m)) = Num(0)
                 /\ IsMeanOfParts(final)
            ELSE FallbackShown(m)

\* name, category, size_score, a scalar metric and dataset_and_code_score
\* raised while dataset_quality returned
C3_Witness ==
    /\ pc = "done"
    /\ \A m \in {"name", "category", "size_score", "bus_factor",
                 "dataset_and_code_score"} : RaisedException(m)
    /\ ReturnedTyped("dataset_quality")

\* scores a metric could have returned instead of raising
ValidScores == {0, 5000, One}

\* metric m alone raised
OnlyRaised(m) ==
    /\ RaisedException(m)
    /\ \A n \in Metrics \ {m} : ReturnedTyped(n)

\* the run that differs only in m returning score v
GradeHadReturned(m, v) ==
    GradeOf([results EXCEPT ![IndexOf(m)] = Ret(Num(v), Num(1))], now, FALSE)

MetricFields == {GradeResultFields[i] : i \in 1..Len(GradeResultFields)}
                   \ {"net_score", "net_score_latency"}

SameOn(g, keys) == \A k \in keys : FinalValue(k) = ValueIn(g, k)

\* C4 (as claimed): when one scalar metric m alone raises, m is -1.0 with
\* latency 0 and every other metric's score and latency field is what it
\* is in the run where m returns a valid score.
C4_Original ==
    pc = "done" =>
        \A m \in Scalars : OnlyRaised(m) =>
            /\ FinalValue(m) = Num(ERROR_VALUE)
            /\ FinalValue(LatencyKey(m)) = Num(0)
            /\ \A v \in ValidScores :
                   SameOn(GradeHadReturned(m, v), MetricFields \ {m, LatencyKey(m)})

\* C4 (amended): when one scalar metric m other than
\* dataset_and_code_score alone raises, m is -1.0 with latency 0 and every
\* other metric's score and latency field is what it is in the run where m
\* returns a valid score, except dataset_and_code_score when m is
\* dataset_quality or code_quality; when dataset_and_code_score alone
\* raises, its latency is 0, its score is still the mean of dataset_quality
\* and code_quality, and no other metric's field differs.
C4_Frame ==
    pc = "done" =>
        \A m \in Scalars : OnlyRaised(m) =>
            /\ FinalValue(LatencyKey(m)) = Num(0)
            /\ IF m = "dataset_and_code_score"
               THEN IsMeanOfParts(final)
               ELSE FinalValue(m) = Num(ERROR_VALUE)
            /\ \A v \in ValidScores :
                   SameOn(GradeHadReturned(m, v),
                          MetricFields \ ({m, LatencyKey(m)} \cup
                             (IF m \in {"dataset_quality", "code_quality"}
                              THEN {"dataset_and_code_score"} ELSE {})))

\* bus_factor alone raised, all others returned
C4_Witness == pc = "done" /\ OnlyRaised("bus_factor")

ScoreFields == {GradeResultFields[i] : i \in 1..Len(GradeResultFields)} \ LatencyKeys

\* what the dedicated dataset_and_code_score function might have done
DedicatedAlternatives ==
    {Raised} \cup {Ret(Num(v), Num(0)) : v \in {ERROR_VALUE, 0, 3000, One, 5 * One}}

\* C5: in every GradeResult dataset_and_code_score is the mean of the
\* GradeResult's dataset_quality and code_quality, and every score field is
\* what it would be had the dedicated function raised or returned another
\* score.
C5_DerivedMean ==
    pc = "done" =>
        /\ IsMeanOfParts(final)
        /\ \A o \in DedicatedAlternatives :
               \E tieUp \in BOOLEAN :
                   SameOn(GradeOf([results EXCEPT
                                      ![IndexOf("dataset_and_code_score")] = o],
                                  now, tieUp),
                          ScoreFields)

\* the dedicated function returned a score other than the mean
C5_Witness ==
    /\ pc = "done"
    /\ ReturnedTyped("dataset_and_code_score")
    /\ 2 * outcome["dataset_and_code_score"].score.n
         # FinalValue("dataset_quality").n + FinalValue("code_quality").n

\* C6: the score record is written, the failures are logged and the net
\* score is computed only after every launched metric task has settled,
\* also when some metric raised or settled early; every task runs to its
\* own end.
C6_FullJoin ==
    (pc \notin {"start", "gather"} \/ DOMAIN metric_scores # {} \/ log # << >>)
    => /\ \A m \in Metrics : tstate[m] = "settled" /\ outcome[m].kind # "pending"
       /\ Len(order) = Len(TaskNames)
       /\ Len(results) = Len(TaskNames)

\* the first task raised at once, a later one suspended and settled last,
\* and the score record was written after that
C6_Witness ==
    /\ pc = "net"
    /\ RaisedException("name")
    /\ nawait["bus_factor"] > 0
    /\ order[Len(order)] = "bus_factor"

\* metric n is able to make progress: its own network call is under way,
\* or it is ready and the loop thread is free to dispatch the ready tasks
CanProgress(n) ==
    /\ pc = "gather"
    /\ \/ tstate[n] \in {"io_blocking", "awaiting"}
       \/ tstate[n] = "scheduled" /\ LoopFree

\* C7 (as claimed): while a metric waits on its network I/O, every other
\* unfinished metric can take a step.
C7_NoBlocking ==
    \A m \in Metrics : tstate[m] \in {"io_blocking", "awaiting"} =>
        \A n \in Metrics \ {m} : tstate[n] # "settled" => CanProgress(n)

\* the fields of the GradeResult that come from the outcome of metric m
RecordedUnderOwnName(m) ==
    IF RaisedException(m)
    THEN IF m = "dataset_and_code_score"
         THEN FinalValue(LatencyKey(m)) = Num(0)
         ELSE FallbackShown(m)
    ELSE CASE m = "name" -> FinalValue(m) = PyStr(outcome[m].score)
           [] m = "category" ->
                 FinalValue(m) = IF outcome[m].score.t = "str"
                                 THEN outcome[m].score ELSE Str("MODEL")
           [] m = "dataset_and_code_score" ->
                 FinalValue(LatencyKey(m)) = outcome[m].latency
           [] OTHER ->
                 /\ FinalValue(m) = outcome[m].score
                 /\ FinalValue(LatencyKey(m)) = outcome[m].latency

\* C8: whatever the order of completion, the GradeResult lists its keys in
\* the order of the schema and holds each metric's outcome under that
\* metric's own name.
C8_OrderIndependent ==
    pc = "done" =>
        /\ KeysOf(final) = GradeResultFields
        /\ \A m \in Metrics : RecordedUnderOwnName(m)

\* the tasks did not complete in the order they were launched
C8_Witness ==
    /\ pc = "done"
    /\ order # TaskNames
    /\ order[Len(order)] = "bus_factor"
    /\ ReturnedTyped("bus_factor")

\* C9 (as claimed): run_metrics never propagates an exception, whatever
\* the metric functions return or raise, also when one is cancelled.
C9_NeverRaises == pc # "raised" /\ error = ""

\* all ten metrics returned the values of the scenario
ScenarioRun ==
    /\ \A m \in Metrics : ReturnedTyped(m)
    /\ outcome["license"].score.n = 10000
    /\ outcome["ramp_up_time"].score.n = 6000
    /\ outcome["bus_factor"].score.n = 7500
    /\ outcome["performance_claims"].score.n = 5000
    /\ outcome["dataset_quality"].score.n = 8000
    /\ outcome["code_quality"].score.n = 9000

\* C10 (as claimed): in the scenario dataset_and_code_score is 0.85 and
\* net_score is 0.70.
C10_Original ==
    (pc = "done" /\ ScenarioRun)
    => /\ FinalValue("dataset_and_code_score") = Num(8500)
       /\ FinalValue("net_score") = Num(7000)

\* C10 (amended): in the scenario dataset_and_code_score is 0.85 and
\* net_score is 0.71, the weighted sum 0.7075 rounded to two decimals.
C10_NetScore ==
    (pc = "done" /\ ScenarioRun)
    => /\ FinalValue("dataset_and_code_score") = Num(8500)
       /\ FinalValue("net_score") = Num(7100)

\* the scenario was graded
C10_Witness == pc = "done" /\ ScenarioRun /\ FinalValue("net_score").t = "num"

\* C11: the net_score of every GradeResult is at most 0.90, and it is
\* exactly 0.90 when license, ramp_up_time, dataset_and_code_score,
\* bus_factor, performance_claims, dataset_quality and code_quality are all
\* 1.0: size_score never reaches the reducer, so its weight of 0.10 is
\* never earned.
C11_Ceiling ==
    pc = "done" =>
        /\ FinalValue("net_score").t = "num"
        /\ FinalValue("net_score").n <= 9000
        /\ (\A m \in Scalars : FinalValue(m) = Num(One))
              => FinalValue("net_score").n = 9000

\* all seven scalar metrics are 1.0 in a GradeResult whose size_score
\* mapping holds scores above 0
C11_Witness ==
    /\ pc = "done"
    /\ \A m \in Scalars : FinalValue(m) = Num(One)
    /\ FinalValue("size_score").t = "dict"
    /\ \E dev \in Devices : FinalValue("size_score").d[dev] > 0

\* every value of the mapping is a number that compares with 0 and 1
Ordered(metrics) == \A k \in DOMAIN metrics : metrics[k].t = "num"

\* m': every weighted key at min(1, max(0, m[k])), at 0.0 when m lacks it
Clamped(metrics) ==
    [k \in DOMAIN WEIGHTS |->
        IF k \notin DOMAIN metrics \/ metrics[k].n < 0 THEN Num(0)
        ELSE IF metrics[k].n > One THEN Num(One)
        ELSE metrics[k]]

\* C12: netscore.compute returns on a mapping m of numbers what it returns
\* on m', the mapping that has every weighted key, at min(1, max(0, m[k]))
\* and at 0.0 for a key m lacks: 5.0 counts as 1.0, -1.0 and an absent key
\* count as 0.0.
C12_Clamps ==
    (pc = "computed" /\ Ordered(net_in))
    => net_out = compute(Clamped(net_in), net_tie)

\* compute ran on a mapping with a weighted key at 5.0, one at -1.0 and one
\* absent, and returned a score above 0
C12_Witness ==
    /\ pc = "computed"
    /\ Ordered(net_in)
    /\ \E k \in DOMAIN WEIGHTS \cap DOMAIN net_in : net_in[k] = Num(5 * One)
    /\ \E k \in DOMAIN WEIGHTS \cap DOMAIN net_in : net_in[k] = Num(ERROR_VALUE)
    /\ DOMAIN WEIGHTS \ DOMAIN net_in # {}
    /\ net_out.n > 0

\* the weights of the table add up to this many hundredths
WeightTotal ==
    WEIGHTS["license"] + WEIGHTS["ramp_up_time"] + WEIGHTS["bus_factor"]
    + WEIGHTS["performance_claims"] + WEIGHTS["dataset_and_code_score"]
    + WEIGHTS["dataset_quality"] + WEIGHTS["code_quality"] + WEIGHTS["size_score"]

\* C13 (as claimed): for every input mapping netscore.compute returns a net
\* score in [0.0, 1.0] with at most two decimals; the weight table is
\* license 0.18, ramp_up_time 0.15, dataset_and_code_score 0.15, bus_factor
\* 0.12, performance_claims 0.10, dataset_quality 0.10, code_quality 0.10,
\* size_score 0.10, and the weights add up to at most 1.0.
C13_UnitInterval ==
    /\ WEIGHTS = [k \in DOMAIN WEIGHTS |->
                    CASE k = "license" -> 18
                      [] k \in {"ramp_up_time", "dataset_and_code_score"} -> 15
                      [] k = "bus_factor" -> 12
                      [] OTHER -> 10]
    /\ DOMAIN WEIGHTS = {"license", "ramp_up_time", "dataset_and_code_score",
                         "bus_factor", "performance_claims", "dataset_quality",
                         "code_quality", "size_score"}
    /\ WeightTotal <= 100
    /\ pc = "computed" =>
           /\ net_out.t = "num"
           /\ 0 <= net_out.n /\ net_out.n <= One
           /\ net_out.n % 100 = 0

\* the metric's latency is a non-negative integer if it returned
HonestLatency(m) ==
    outcome[m].kind = "ret" =>
        outcome[m].latency.t = "num" /\ outcome[m].latency.n >= 0

\* C14: provided every metric that returned reported a non-negative
\* integer latency, every latency field of the GradeResult is a
\* non-negative integer, net_score_latency and the latency of a metric that
\* raised included.
C14_LatenciesNonNegative ==
    (pc = "done" /\ \A m \in Metrics : HonestLatency(m))
    => \A i \in 1..Len(final) :
           final[i][1] \in LatencyKeys =>
               final[i][2].t = "num" /\ final[i][2].n >= 0

\* one metric raised, another took time, and the GradeResult was built
C14_Witness ==
    /\ pc = "done"
    /\ \A m \in Metrics : HonestLatency(m)
    /\ RaisedException("license")
    /\ FinalValue("license_latency") = Num(0)
    /\ FinalValue("code_quality_latency").n > 0
    /\ FinalValue("net_score_latency").n > 0

\* size_score is the repository's size_score.compute: it returned one of
\* the mappings that function returns for model_url, or it raised
SizeScoreFromSource ==
    \/ RaisedException("size_score")
    \/ /\ outcome["size_score"].kind = "ret"
       /\ outcome["size_score"].latency.t = "num"
       /\ outcome["size_score"].score \in SizeScoreReturns(model_url)

\* C15: in every GradeResult built with the repository's size_score metric
\* (it returned normally, took its internal failure path, or raised),
\* size_score is a mapping with exactly the keys raspberry_pi, jetson_nano,
\* desktop_pc and aws_server, and each value is in [0.0, 1.0] or is -1.0.
C15_SizeScoreShape ==
    (pc = "done" /\ SizeScoreFromSource)
    => /\ FinalValue("size_score").t = "dict"
       /\ DOMAIN FinalValue("size_score").d
            = {"raspberry_pi", "jetson_nano", "desktop_pc", "aws_server"}
       /\ \A dev \in DOMAIN FinalValue("size_score").d :
              InRange(FinalValue("size_score").d[dev])

\* size_score.compute returned scores 0.0, 0.5 and 1.0 for a model of 1.5 GB
C15_Witness ==
    /\ pc = "done"
    /\ outcome["size_score"].kind = "ret"
    /\ outcome["size_score"].score = DeviceScores(15)
    /\ FinalValue("size_score").d["raspberry_pi"] = 0
    /\ FinalValue("size_score").d["jetson_nano"] = One \div 2
    /\ FinalValue("size_score").d["aws_server"] = One

\* every metric function did in this invocation what it did in the first
SameOutcomes ==
    \A m \in Metrics : Replayed(outcome[m], 0) = first.outcome[m]

\* C16: a second invocation of run_metrics on the same Subject, in which
\* every metric function returns or raises what it did in the first,
\* yields the net_score of the first; nothing the first invocation left
\* behind changes it.
C16_Idempotent ==
    (pc = "done" /\ call = 2 /\ SameOutcomes)
    => FinalValue("net_score") = first.net_score

\* the second invocation returned a GradeResult in a run where a metric
\* raised and the weighted sum lay half way between two hundredths
C16_Witness ==
    /\ pc = "done"
    /\ call = 2
    /\ SameOutcomes
    /\ RaisedException("license")
    /\ first.net_score.n > 0
    /\ netscore_compute(first.input, TRUE) # netscore_compute(first.input, FALSE)

\* two dict values are one object
SameObject(a, b) == a.t = "dict" /\ b.t = "dict" /\ a.s # "" /\ a.s = b.s

\* C18 (as claimed): the size_score mapping of a GradeResult is an object
\* of its own invocation: it is not a module-level object, and it is not
\* the size_score mapping of the GradeResult of the other invocation.
C18_NothingShared ==
    pc = "done" =>
        /\ FinalValue("size_score").s = ""
        /\ call = 2 =>
               ~SameObject(FinalValue("size_score"), first.outcome["size_score"].score)

\* the Subject has a URL for the category
HasUrl(category) == category \in DOMAIN urls /\ "url" \in DOMAIN urls[category]

\* the name metric did what name.compute does on model_url
NameFromSource ==
    /\ outcome["name"].kind = "ret"
    /\ outcome["name"].score = Str(name_compute(model_url))

\* C17: when run_metrics is called with no MODEL entry or with an empty
\* primary URL, every metric function is called with the empty string for
\* each URL the Subject lacks and with the Subject's URL otherwise, the
\* name metric yields the empty string, and run_metrics returns a
\* GradeResult with all 20 keys.
C17_EmptySubject ==
    (pc # "start" /\ (~HasUrl("MODEL") \/ urls["MODEL"]["url"] = EmptyUrl))
    => /\ model_url = EmptyUrl
       /\ code_url = (IF HasUrl("CODE") THEN urls["CODE"]["url"] ELSE EmptyUrl)
       /\ dataset_url = (IF HasUrl("DATASET") THEN urls["DATASET"]["url"] ELSE EmptyUrl)
       /\ (pc \in {"done", "raised"}
           /\ NameFromSource
           /\ \A m \in Metrics : RaisedException(m) \/ ReturnedTyped(m))
          => /\ pc = "done"
             /\ outcome["name"].score = Str("")
             /\ FinalValue("name") = Str("")
             /\ KeysOf(final) = GradeResultFields

\* a Subject without a MODEL entry but with a code URL was graded: the
\* name metric returned and other metrics raised
C17_Witness ==
    /\ pc = "done"
    /\ "MODEL" \notin DOMAIN urls
    /\ code_url = CodeUrl
    /\ model_url = EmptyUrl
    /\ NameFromSource
    /\ RaisedException("license")
    /\ FinalValue("name") = Str("")

\* the scores model_ingest checks: the eight scalar scores and the four
\* size_score subscores of the GradeResult g
CheckedScores(g) ==
    {ValueIn(g, k).n : k \in {"net_score", "ramp_up_time", "bus_factor",
                               "performance_claims", "license",
                               "dataset_and_code_score", "dataset_quality",
                               "code_quality"}}
    \cup {ValueIn(g, "size_score").d[dev] : dev \in Devices}

\* C19: model_ingest(result, threshold) returns True exactly when each of
\* net_score, ramp_up_time, bus_factor, performance_claims, license,
\* dataset_and_code_score, dataset_quality, code_quality and every
\* size_score subscore is >= threshold; at the default threshold 0.5 a
\* GradeResult with -1.0 in a checked field is never accepted; and the
\* argument is the same after the call.
C19_IngestRule ==
    pc = "ingested" =>
        /\ ingest_out.accepted
             <=> (\A x \in CheckedScores(ingest_arg) : x >= ingest_threshold)
        /\ (ingest_threshold = 5000 /\ ERROR_VALUE \in CheckedScores(ingest_arg))
             => ~ingest_out.accepted
        /\ ingest_out.after = ingest_arg

\* a GradeResult with one score exactly at the threshold and all others
\* above it was accepted
C19_Witness ==
    /\ pc = "ingested"
    /\ ingest_out.accepted
    /\ ingest_threshold = 5000
    /\ ValueIn(ingest_arg, "bus_factor").n = 5000
    /\ ValueIn(ingest_arg, "size_score").d["raspberry_pi"] = 5000

\* C20 (as claimed): run_metrics is called only for lines on which a URL
\* classifies as MODEL, and urls_processor returns the last GradeResult
\* that run_metrics returned, or {} when it returned none.
C20_ReturnsLastGraded ==
    /\ \A i \in 1..Len(invoked) :
           \E j \in 1..Len(lines[invoked[i]]) :
               CategoryOf(lines[invoked[i]][j]) = "MODEL"
    /\ pc = "returned" =>
           returned = IF graded # << >> THEN graded[Len(graded)] ELSE EmptyResult

\* the category the rule gives a stripped string, each test made without
\* regard to case
CategoryByRule(s) ==
    LET l == lower(s)
    IN  IF s = << >> THEN "OTHER"
        ELSE IF Contains(l, << "huggingface.co" >>)
        THEN IF \/ Contains(l, << "/", "datasets", "/" >>)
                \/ EndsWith(l, << "/", "datasets" >>)
             THEN "DATASET" ELSE "MODEL"
        ELSE IF Contains(l, << "github.com" >>) THEN "CODE"
        ELSE "OTHER"

\* C21: classify_url gives every string one category: OTHER with url ""
\* for an empty or whitespace-only string; for a string containing
\* huggingface.co, DATASET when it contains "/datasets/" or ends with
\* "/datasets" and MODEL otherwise; CODE for a string containing
\* github.com; OTHER for every other string; and the url returned is the
\* stripped input.
C21_Classification ==
    pc = "classified" =>
        /\ classified.url = strip(raw)
        /\ classified.category = CategoryByRule(strip(raw))

\* C22: bus_factor.compute returns a score in [0.0, 1.0] and a latency
\* >= 0 for every model URL, whatever commit authorship, download count
\* and file count the hub reports.
C22_BusFactorRange ==
    pc = "bf_done" =>
        /\ 0 <= bf_out.score /\ bf_out.score <= One
        /\ bf_out.latency >= 0

\* the model id in a URL of the lineage
IdIn(url) == SubSeq(url, 2, Len(url))

\* the list returned for a model with an id: the queried model's URL last,
\* every element the parent of the one after it, no URL twice, and before
\* the first element either no parent or a model already in the list
LineageShape ==
    LET n == Len(lg_out)
    IN  /\ n >= 1
        /\ lg_out[n] = UrlOfModel(ModelIdOf(lg_arg))
        /\ \A i, j \in 1..n : lg_out[i] = lg_out[j] => i = j
        /\ \A i \in 1..(n - 1) : parent_of[IdIn(lg_out[i + 1])] = IdIn(lg_out[i])
        /\ \/ parent_of[IdIn(lg_out[1])] = << >>
           \/ \E i \in 1..n : parent_of[IdIn(lg_out[1])] = IdIn(lg_out[i])
        /\ parent_of[ModelIdOf(lg_arg)] = << >> => n = 1

\* C24: for every non-empty model id and every parent relation over a
\* finite set of models, cyclic ones included, get_lineage_graph terminates
\* and returns the URLs from the most distant ancestor to the queried
\* model, none twice and the queried model's last; with no parent inferred
\* the list holds the queried model's URL only.
C24_Lineage ==
    /\ [](pc = "lg_done" /\ ModelIdOf(lg_arg) # << >> => LineageShape)
    /\ (ModelIdOf(lg_arg) # << >> => <>(pc = "lg_done"))

\* a lineage of three models whose most distant ancestor names a model of
\* the list as its parent
C24_Witness ==
    /\ pc = "lg_done"
    /\ Len(lg_out) = 3
    /\ parent_of[IdIn(lg_out[1])] # << >>

\* the requests _get_ancestor_score received during the current call
InThisCall(req) == req.call = tree_call
RequestsNow == SelectSeq(requests, InThisCall)

\* the ancestors in the lineage returned: all but the queried model
AncestorsOf(lg) == IF lg = << >> THEN << >> ELSE SubSeq(lg, 1, Len(lg) - 1)

\* the scores that were obtained and are >= 0
IsObtained(req) == req.score # NoScore /\ req.score >= 0
ObtainedNow == SelectSeq(RequestsNow, IsObtained)

\* C23: without ancestors in the lineage treescore.compute returns
\* current_net_score if it was given and 0.0 otherwise; with ancestors it
\* returns the arithmetic mean of the ancestor scores that were obtained
\* and are >= 0, or 0.0 if none was obtained; the current model itself is
\* never scored.
C23_TreeScore ==
    pc = "tree_done" =>
        /\ [i \in 1..Len(RequestsNow) |-> RequestsNow[i].url] = AncestorsOf(lg_out)
        /\ \A i \in 1..Len(RequestsNow) :
               RequestsNow[i].url # UrlOfModel(ModelIdOf(lg_arg))
        /\ IF AncestorsOf(lg_out) = << >>
           THEN tree_out.score = IF tree_args.current_net_score # NoScore
                                 THEN tree_args.current_net_score ELSE 0
           ELSE IF ObtainedNow = << >>
           THEN tree_out.score = 0
           ELSE tree_out.score * Len(ObtainedNow)
                    <= Sum([i \in 1..Len(ObtainedNow) |-> ObtainedNow[i].score])
                /\ Sum([i \in 1..Len(ObtainedNow) |-> ObtainedNow[i].score])
                    < (tree_out.score + 1) * Len(ObtainedNow)

\* two ancestors, the score of one obtained and that of the other not
C23_Witness ==
    /\ pc = "tree_done"
    /\ Len(RequestsNow) = 2
    /\ Len(ObtainedNow) = 1
    /\ tree_out.score = One

\* the requests made since the cache was last empty
SinceCleared(i) == requests[i].cleared = cleared

\* C29: _get_ancestor_score consults the score cache, then the
\* score_fetcher if one is given, then run_metrics, and stops at the first
\* that yields a score; a fetcher that raises or returns None or a negative
\* score falls through to run_metrics; every score obtained from the
\* fetcher or from run_metrics is stored in the cache, so that until
\* clear_cache is called a later request for the same URL returns the same
\* score without calling the fetcher or run_metrics again.
C29_AncestorScore ==
    /\ \A i \in 1..Len(requests) :
           LET q == requests[i]
           IN  /\ q.hit => ~q.fetcher_called /\ ~q.run_called
               /\ ~q.hit => (q.fetcher_called <=> tree_args.score_fetcher)
               /\ q.fetcher_called /\ q.fetcher_outcome = "score" =>
                      ~q.run_called /\ q.score = FetchedScore
               /\ ~q.hit /\ ~(q.fetcher_called /\ q.fetcher_outcome = "score") =>
                      /\ q.run_called
                      /\ q.score = IF q.run_outcome = "raises" THEN NoScore
                                   ELSE RunScore(q.run_outcome)
               /\ q.score # NoScore /\ SinceCleared(i) =>
                      q.url \in DOMAIN score_cache /\ score_cache[q.url] = q.score
    /\ \A i, j \in 1..Len(requests) :
           (/\ i < j
            /\ requests[i].url = requests[j].url
            /\ requests[i].cleared = requests[j].cleared
            /\ requests[i].score # NoScore) =>
               /\ requests[j].score = requests[i].score
               /\ ~requests[j].fetcher_called
               /\ ~requests[j].run_called

\* run_metrics gave an ancestor the score 0.0 in the first call, and the
\* second call asked for the same ancestor without clear_cache in between
C29_Witness ==
    \E i, j \in 1..Len(requests) :
        /\ i < j
        /\ requests[i].url = requests[j].url
        /\ requests[i].run_called
        /\ requests[i].score = 0
        /\ requests[i].fetcher_outcome = "raises"
        /\ ~requests[j].cleared
        /\ requests[j].hit

\* the metrics whose returned score the GradeResult is claimed to show
StoredMetrics == Metrics \ {"dataset_and_code_score"}

\* the GradeResult has a latency field for the metric
HasLatencyField(m) == m \notin {"name", "category"}

\* C25 as stated: for every metric other than dataset_and_code_score
\* whose function returns normally, the GradeResult's score field equals
\* the returned score, unclamped, and its latency field equals the
\* returned latency.
C25_Original ==
    pc = "done" =>
        \A m \in StoredMetrics : outcome[m].kind = "ret" =>
            /\ FinalValue(m) = outcome[m].score
            /\ HasLatencyField(m) => FinalValue(LatencyKey(m)) = outcome[m].latency

\* C25 (amended): for every metric other than dataset_and_code_score
\* whose function returns a pair of its contract's types, the GradeResult's
\* score field equals the returned score, unclamped; and for every metric
\* with a latency field, dataset_and_code_score included, whose function
\* returns such a pair, the latency field equals the returned latency.
C25_Verbatim ==
    pc = "done" =>
        \A m \in Metrics : ReturnedTyped(m) =>
            /\ m \in StoredMetrics => FinalValue(m) = outcome[m].score
            /\ HasLatencyField(m) => FinalValue(LatencyKey(m)) = outcome[m].latency

\* a scalar metric returned 5.0 and the GradeResult shows 5.0
C25_Witness ==
    /\ pc = "done"
    /\ \E m \in Scalars \cap StoredMetrics :
           /\ ReturnedTyped(m)
           /\ outcome[m].score = Num(5 * One)
           /\ FinalValue(m) = Num(5 * One)

\* the outcome with another latency
Relatency(o, lat) ==
    IF o.kind = "ret" /\ o.latency.t = "num" THEN Ret(o.score, Num(lat)) ELSE o

\* the gather results of a run in which name, category and size_score
\* did n, c and s, and every other metric took lat ms to return what it
\* returned in this run
OtherRun(n, c, s, lat) ==
    [i \in 1..Len(results) |->
        CASE TaskNames[i] = "name" -> n
          [] TaskNames[i] = "category" -> c
          [] TaskNames[i] = "size_score" -> s
          [] OTHER -> Relatency(results[i], lat)]

OtherNames == {Ret(Str(""), Num(0)), Raised}
OtherCategories == {Ret(Str("DATASET"), Num(0)), Raised}
OtherSizes == {Ret(Dict([dev \in Devices |-> One]), Num(0)), Raised}

\* the runs that agree with this one on what the seven scalar metrics did
OtherRuns ==
    {OtherRun(n, c, s, now + 7) : n \in OtherNames, c \in OtherCategories, s \in OtherSizes}

\* C26: net_score depends only on the seven scalar score fields: two runs
\* of run_metrics that agree on those seven values but differ in name,
\* category, size_score or any latency yield the same net_score.
C26_NetScoreInputs ==
    pc = "done" =>
        \E tieUp \in BOOLEAN :
            LET h == GradeOf(results, now, tieUp)
            IN  /\ FinalValue("net_score") = ValueIn(h, "net_score")
                /\ \A other \in OtherRuns :
                       LET g == GradeOf(other, now + 9, tieUp)
                       IN  (\A m \in Scalars : ValueIn(g, m) = ValueIn(h, m)) =>
                               ValueIn(g, "net_score") = ValueIn(h, "net_score")

\* a run with a positive net score, and one that agrees with it on the
\* seven scalar scores but has every device score of size_score at 1.0 and
\* other latencies
C26_Witness ==
    /\ pc = "done"
    /\ FinalValue("net_score").n > 0
    /\ FinalValue("size_score").d["raspberry_pi"] < One
    /\ \E other \in OtherRuns :
           LET g == GradeOf(other, now + 9, TRUE)
           IN  /\ \A m \in Scalars : ValueIn(g, m) = FinalValue(m)
               /\ ValueIn(g, "size_score").d["raspberry_pi"] = One
               /\ ValueIn(g, "name") # FinalValue("name")
               /\ ValueIn(g, "ramp_up_time_latency") # FinalValue("ramp_up_time_latency")

\* the latency the metric returned is time that passed on the clock of
\* run_metrics between the metric's start and the end of the run
OnRunClock(m) ==
    outcome[m].kind = "ret" =>
        outcome[m].latency.t = "num" /\ outcome[m].latency.n <= now - started[m]

\* C27: net_score_latency is the time from the entry into run_metrics
\* until the reducer has returned, not the reducer's own latency; with
\* every metric's latency measured on the same monotonic clock it is
\* greater than or equal to every metric latency in the GradeResult.
C27_TotalTime ==
    pc = "done" =>
        /\ FinalValue("net_score_latency") = Num(now)
        /\ \A m \in Metrics :
               HasLatencyField(m) /\ OnRunClock(m) =>
                   FinalValue(LatencyKey(m)).n <= FinalValue("net_score_latency").n

\* a metric took time, every latency was measured on the run's clock, and
\* the run took as long as its slowest metric
C27_Witness ==
    /\ pc = "done"
    /\ \A m \in Metrics : OnRunClock(m)
    /\ \E m \in Metrics :
           /\ HasLatencyField(m)
           /\ FinalValue(LatencyKey(m)).n > 0
           /\ FinalValue(LatencyKey(m)).n <= FinalValue("net_score_latency").n
    /\ FinalValue("net_score_latency").n > 0

\* the number of error log entries that name metric m
LogEntries(m) == Cardinality({i \in 1..Len(log) : log[i] = m})

\* the loop over the results is over: run_metrics went on to the reducer,
\* or ended by raising
ResolveOver == pc \in {"net", "assemble", "done", "raised"}

\* C28: metric failures are downgraded, never surfaced: every metric that
\* raised has exactly one error log entry naming it and the sentinel in
\* its place, a metric that returned normally has no entry, and there are
\* as many entries as metrics that raised.
C28_FailuresLogged ==
    ResolveOver =>
        /\ \A m \in Metrics :
               LogEntries(m) = IF RaisedException(m) THEN 1 ELSE 0
        /\ Len(log) = NumRaised
        /\ NumRaised > 0 => pc # "raised"
        /\ pc = "net" =>
               \A m \in Metrics :
                   RaisedException(m) =>
                       Get(metric_scores, m, NoneValue) = Fallback(EmptyDict, m)[m]

\* how often the result of line k occurs in a list of results
EntriesOf(seq, k) == Cardinality({j \in 1..Len(seq) : seq[j].line = k})

\* the results of a list are in the order of the input file
InFileOrder(seq) ==
    \A i, j \in 1..Len(seq) : i < j => seq[i].line < seq[j].line

\* the upload of run.py:199-208 failed: s3_utils could not be loaded, or
\* save_result_to_s3 raised
UploadFailed(fate) == fate \in {"import_raises", "upload_raises"}

\* C30: a failure on one line leaves the other lines alone: a line on
\* which run_metrics raised has no output; a line on which only the S3
\* upload failed is written and counted; stdout holds exactly one result
\* per graded line, in the order of the file, each written before the
\* next line is handled; and the loop goes on to the end of the file.
C30_LineIsolation ==
    /\ \A i \in 1..Len(invoked) :
           /\ fates[i] = "metrics_raise" =>
                  /\ EntriesOf(stdout, invoked[i]) = 0
                  /\ EntriesOf(all_results, invoked[i]) = 0
           /\ UploadFailed(fates[i]) =>
                  /\ EntriesOf(stdout, invoked[i]) = 1
                  /\ EntriesOf(all_results, invoked[i]) = 1
           /\ fates[i] # "metrics_raise" => EntriesOf(stdout, invoked[i]) = 1
    /\ Len(stdout) = Len(graded)
    /\ InFileOrder(stdout)
    /\ pc = "returned" => line_num = Len(lines) + 1

====
